---- MODULE Spec2Model ----
(***************************************************************************)
(* The booking engine of the Evently booking platform: BookingService      *)
(* (create / confirm / cancel / expire), SeatService (hold / release /     *)
(* cleanup), BulkBookingService.create_bulk_booking,                       *)
(* EventService.update_event and WaitlistService (join / leave / notify /  *)
(* convert / expire notifications), running as request handlers over one   *)
(* PostgreSQL database at READ COMMITTED (database.py sets no isolation    *)
(* level).  Every handler runs on an AsyncSession of its own.              *)
(*                                                                         *)
(* A handler is a transaction.  Its SELECTs see the rows committed at the  *)
(* moment they run; its UPDATE statements are evaluated against the latest *)
(* committed row (a concurrent writer of the same row makes the statement  *)
(* wait for that writer's commit) and become visible at COMMIT.  A handler *)
(* is therefore modelled by one step for its reads and one step for its    *)
(* writes and commit; the rows it read are kept in its call record.        *)
(*                                                                         *)
(* Specifications:                                                         *)
(*   Spec          the booking lifecycle on a general-admission event      *)
(*   SpecCapacity  every writer of the events row                          *)
(*   SpecSeats     every writer of seats and seat_bookings rows            *)
(*   SpecRace      a burst of create_booking calls on a nearly full event  *)
(*   SpecLaw       one caller: create, then cancel or expire               *)
(*   SpecSeatService   hold / release / cleanup and bulk bookings, one     *)
(*                     caller                                              *)
(*   SpecForeignSeat   a booking with seats when the database also holds a *)
(*                     seat of another event                               *)
(*   SpecWaitlist      WaitlistService on a sold-out event, one caller     *)
(*   SpecWaitlistRace  concurrent join / leave / notify calls              *)
(*   SpecWaitlistExpiry  notify / convert / expire notifications, with the *)
(*                     notification window passing                         *)
(*   SpecLock          DistributedLock objects contending for one key      *)
(*   SpecLockedCreate  create_booking's body under the per-user lock       *)
(*   SpecRetry         create_booking through retry_on_concurrency_error   *)
(*   SpecScheduler     the celery worker running the tasks of the beat     *)
(*                     schedule beside seat requests, with fairness        *)
(*   SpecRelease       confirm / cancel / expire with the broker up and    *)
(*                     the worker of the notification tasks, with fairness *)
(*   SpecHoldRace      concurrent hold_seats and create-with-seats calls   *)
(*   SpecBulkLaw       one caller: bulk booking, then cancel or expire     *)
(*   SpecPricing       the waitlist multiplier of the dynamic pricing      *)
(*                                                                         *)
(* create_booking is reached through the retry_on_concurrency_error        *)
(* decorator, whose wrapper raises TypeError before the function runs      *)
(* (DecoratedCreateCall).  CreateCall, CreateRead and CreateWrite model    *)
(* the function the decorator wraps, one attempt after another as          *)
(* retry_async would run them; outside SpecLockedCreate they leave the     *)
(* per-user lock out (callers of one event are different users).           *)
(*                                                                         *)
(* The celery broker is out of reach in every specification but            *)
(* SpecRelease: the .delay() calls of the services raise and are caught.   *)
(*                                                                         *)
(* Not modelled: amounts charged, owners of bookings, the sending of a     *)
(* notification, caches, events that are inactive or in the past.          *)
(***************************************************************************)
EXTENDS Integers, Sequences, FiniteSets, TLC

\* ------------------------------------------------------------------ bounds
MaxBookings == 2        \* booking rows the model lets exist
NumSeats == 2           \* seats of a seat-selection event
NumProcs == 2           \* request handlers running at the same time
MaxCapacity == 2        \* largest total_capacity
MaxTicks == 2           \* clock advances
NumRacers == 4          \* callers of the create_booking race
MaxVersion == 4         \* update_event is not started at or above this version
MaxEntries == 3         \* waitlist rows the model lets exist
NumUsers == 3           \* users who join the waitlist
MaxDays == 2            \* clock advances of one notification window
NumHolders == 3         \* lock objects contending for one key
MaxWaitlistSize == 24   \* largest count of waitlist rows a price is calculated for
MaxAvailable == 12      \* largest available_capacity a price is calculated for

\* ------------------------------------------------------- program constants
booking_hold_timeout_minutes == 15
max_booking_quantity == 10
SEAT_HOLD_DURATION == 15
BULK_MIN_QUANTITY == 2
BULK_MAX_QUANTITY == 100
BULK_EXPIRY_MINUTES == 15
max_attempts == 3
waitlist_notification_timeout_hours == 24
expired_bookings_limit == 100
SoldOutBaseline == 10   \* the divisor of the waitlist pressure of a sold-out event

NULL == -1              \* a column that is NULL

\* The clock advances by one hold period at a time.
ClockStep == booking_hold_timeout_minutes

Procs == 1..NumProcs
BookingIds == 1..MaxBookings
WaitlistIds == 1..MaxEntries
UserIds == 1..NumUsers
SeatIds == 1..NumSeats
Quantities == 1..MaxCapacity

\* The create_booking requests made: general admission (no seat_ids), and
\* named seats with quantity = len(seat_ids).
GeneralRequests == {<<q, {}>> : q \in Quantities}
SeatRequests == {<<Cardinality(S), S>> : S \in (SUBSET SeatIds) \ {{}}}

VARIABLES
    now,            \* wall clock, minutes
    event,          \* the events row
    seats,          \* the seats rows: id -> [event_id, status, updated_at]
    bookings,       \* the bookings rows: id -> [status, quantity, expires_at]
    seat_bookings,  \* the seat_bookings rows: set of <<booking id, seat id>>
    history,        \* the booking_history rows of each booking, in insertion order
    released,       \* history variable: times _release_booking_capacity committed for a booking
    calls,          \* the handler each process is running, and what it has read
    returned,       \* the call that ended in the last step, and what it gave its caller
    mark,           \* history variable: the events row when the sequence under test began
    waitlist,       \* the waitlist rows of the event: id -> [user_id, requested_quantity, position, status, updated_at]
    joined,         \* history variable: the user of the join_waitlist that committed last, and the rows it found
    broker,         \* the celery broker: [up, queue], the task messages published and not yet taken
    pricing,        \* one call of the waitlist multiplier: [waitlist_size, available_capacity, multiplier]
    lock_key,       \* Redis: the value stored under lock:booking:{event_id}:{user_id}, NULL when unset
    locks           \* the DistributedLock object of each process: [pc, identifier, blocking, has_timeout, outcome]

vars == <<now, event, seats, bookings, seat_bookings, history, released, calls, returned, mark,
          waitlist, joined, lock_key, locks, broker, pricing>>
store == <<event, seats, bookings, seat_bookings, history, waitlist>>

\* ------------------------------------------------------------- data model
\* models/booking.py BookingStatus; "NONE" marks a row that does not exist yet.
BookingStatus == {"PENDING", "CONFIRMED", "CANCELLED", "EXPIRED"}
\* models/event.py Event.id: the event every call of the model names, and
\* another event of the same database.
EventIds == {"E1", "E2"}
BookedEvent == "E1"

\* models/seat.py SeatStatus
SeatStatus == {"AVAILABLE", "HELD", "BOOKED", "BLOCKED"}

NoBooking == [status |-> "NONE", quantity |-> 0, expires_at |-> NULL]

\* Booking.is_active: the booking is pending or confirmed.
is_active(b) == b.status \in {"CONFIRMED", "PENDING"}

\* Booking.is_expired, evaluated at time t.
is_expired(b, t) == IF b.expires_at = NULL THEN FALSE ELSE t > b.expires_at

\* The CHECK constraints of the events table.
EventConstraintsCorrupt(e) == TRUE
EventConstraints(e) ==
    /\ e.total_capacity > 0
    /\ e.available_capacity >= 0
    /\ e.available_capacity <= e.total_capacity
    /\ e.version > 0

\* models/waitlist.py WaitlistStatus; "NONE" marks a row that does not exist
\* yet and "DELETED" one that session.delete() removed.
WaitlistStatus == {"ACTIVE", "NOTIFIED", "EXPIRED", "CONVERTED"}

NoEntry == [user_id |-> 0, requested_quantity |-> 0, position |-> 0,
            status |-> "NONE", updated_at |-> 0]

NoJoin == [user_id |-> 0, rows |-> <<>>]

\* The waitlist table of an event nobody has joined.
NoWaitlist ==
    /\ waitlist = [w \in WaitlistIds |-> NoEntry]
    /\ joined = NoJoin

\* The seat ids a booking's seat_bookings rows name.
SeatsOf(sb, b) == {s \in SeatIds : <<b, s>> \in sb}

\* Ids of the rows of the bookings table.
Existing == {b \in BookingIds : bookings[b].status # "NONE"}

\* uuid4(): a fresh primary key.  Rows are numbered in the order they commit.
FreshId(bk) == CHOOSE b \in BookingIds :
                  /\ bk[b].status = "NONE"
                  /\ \A c \in BookingIds : c < b => bk[c].status # "NONE"

\* ------------------------------------------------------------- call records
Idle == [op |-> "idle", pc |-> "idle", quantity |-> 0, seat_ids |-> {},
         booking_id |-> 0, ev |-> [version |-> 0, available_capacity |-> 0, total_capacity |-> 0],
         bk |-> NoBooking, bk_seats |-> {}, attempt |-> 0,
         user_id |-> 0, waitlist_ids |-> <<>>, position |-> 0, entry |-> NoEntry,
         booking_ids |-> <<>>, in_transaction |-> FALSE]

\* No process has constructed a DistributedLock and the key is unset.
NoLocks ==
    /\ lock_key = NULL
    /\ locks = <<>>

NoReturn == [op |-> "none", result |-> "none"]

\* The broker cannot be reached: every .delay() raises, and each caller of
\* .delay() in the services catches the exception and logs it.
NoBroker == broker = [up |-> FALSE, queue |-> {}]

\* No price is being calculated.
NoPricing == pricing = [waitlist_size |-> 0, available_capacity |-> 0, multiplier |-> NULL]

\* Task.delay(...): the message is on the broker's queue when delay returns.
delay(st, message) ==
    IF st.broker.up THEN [st EXCEPT !.broker.queue = @ \cup {message}] ELSE st

\* The task messages of the services.  booking_id of a
\* notify_waitlist_availability_task message is history information (the
\* booking whose release queued it); its arguments are the event and the
\* quantity released.
Message(task, booking_id, available_quantity) ==
    [task |-> task, booking_id |-> booking_id, available_quantity |-> available_quantity]

\* Process p goes on with its call, now in state c.
Continue(p, c) ==
    /\ calls' = [calls EXCEPT ![p] = c]
    /\ returned' = NoReturn
    /\ UNCHANGED <<mark, lock_key, locks, pricing>>

\* The call `op` of process p returns `r` to its caller ("ok", or the
\* exception raised).
Finish(p, op, r) ==
    /\ calls' = [calls EXCEPT ![p] = Idle]
    /\ returned' = [op |-> op, result |-> r]
    /\ UNCHANGED <<mark, lock_key, locks, pricing>>

EventSnapshot(e) == [version |-> e.version,
                     available_capacity |-> e.available_capacity,
                     total_capacity |-> e.total_capacity]

\* ---------------------------------------------------------------- exceptions
\* str(e).lower() of the exceptions create_booking's body raises, as words.
\* InsufficientCapacityError takes (requested, available): the one-argument
\* raises in the services end in TypeError.  BookingError is defined nowhere:
\* evaluating `raise BookingError(...)` ends in NameError.
ExceptionText(e) ==
    CASE e = "ConcurrencyError" ->
            <<"event", "was", "modified", "by", "another", "transaction">>
      [] e = "TypeError" ->
            <<"insufficientcapacityerror.__init__()", "missing", "1", "required",
              "positional", "argument:", "'available'">>
      [] e = "NameError" ->
            <<"name", "'bookingerror'", "is", "not", "defined">>
      [] OTHER -> <<>>

Mentions(text, word) == \E i \in DOMAIN text : text[i] = word

\* create_booking, `except Exception as e`: what the handler raises for e.
CreateHandler(e) ==
    IF Mentions(ExceptionText(e), "version") \/ Mentions(ExceptionText(e), "concurrent")
    THEN "ConcurrencyError"
    ELSE "NameError"    \* either branch of `raise BookingError(...)`

\* retry_async under retry_on_concurrency_error: is the call run again?
Retryable(e) == e \in {"ConcurrencyError", "TimeoutError"}

\* ------------------------------------------------------------ transactions
\* The rows a transaction sees and writes.  A transaction starts from the
\* committed rows, applies its statements to its own copy, and COMMIT
\* publishes the copy; ROLLBACK leaves the committed rows as they were.
Store == [event |-> event, seats |-> seats, bookings |-> bookings,
          seat_bookings |-> seat_bookings, history |-> history,
          released |-> released, waitlist |-> waitlist, joined |-> joined,
          broker |-> broker]

Publish(st) ==
    /\ event' = st.event
    /\ seats' = st.seats
    /\ bookings' = st.bookings
    /\ seat_bookings' = st.seat_bookings
    /\ history' = st.history
    /\ released' = st.released
    /\ waitlist' = st.waitlist
    /\ joined' = st.joined
    /\ broker' = st.broker

\* session.rollback() / leaving `async with session.begin()` on an exception.
\* A message published on the broker is not part of the transaction.
RollbackKeepsFlushed(committed, tx) == tx
Rollback(committed, tx) == [committed EXCEPT !.broker = tx.broker]

\* The outcome of a transaction body: the exception it raised ("none" when it
\* reached COMMIT) and the rows it had written by then.
Outcome(e, st) == [exc |-> e, st |-> st]

\* session.add(booking); session.flush()
InsertBooking(st, id, q, exp) ==
    [st EXCEPT !.bookings[id] = [status |-> "PENDING", quantity |-> q, expires_at |-> exp]]

\* BookingService._create_booking_history
create_booking_history(st, id, action) ==
    [st EXCEPT !.history[id] = Append(@, action)]

\* An UPDATE of the events row: the CHECK constraints reject a bad new row.
UpdateEventRow(st, e) ==
    IF EventConstraints(e)
    THEN Outcome("none", [st EXCEPT !.event = e])
    ELSE Outcome("IntegrityError", st)

\* An UPDATE of seats rows `S` to `status`; onupdate=func.now() stamps them.
UpdateSeatRows(st, S, status, t) ==
    [st EXCEPT !.seats = [s \in SeatIds |->
        IF s \in S THEN [st.seats[s] EXCEPT !.status = status, !.updated_at = t]
        ELSE st.seats[s]]]

\* ------------------------------------------------------- BookingService
\* _validate_seat_availability: the exception raised, or "none".
validate_seat_availability(st, S) ==
    LET available_seats == {s \in S : st.seats[s].status = "AVAILABLE"}
    IN IF Cardinality(available_seats) # Cardinality(S)
       THEN "TypeError"       \* InsufficientCapacityError(<one message>)
       ELSE "none"

\* _validate_booking_request on the event row just read.
validate_booking_request(st, q, S) ==
    IF q <= 0 THEN "NameError"
    ELSE IF q > max_booking_quantity THEN "NameError"
    ELSE IF S # {}
         THEN IF Cardinality(S) # q THEN "NameError"
              ELSE IF ~st.event.has_seat_selection THEN "NameError"
              ELSE validate_seat_availability(st, S)
         ELSE IF st.event.available_capacity < q
              THEN "TypeError"   \* InsufficientCapacityError(<one message>)
              ELSE "none"

\* _reserve_specific_seats: the UPDATE's row count is not looked at.
reserve_specific_seats(st, id, S, t) ==
    LET hit == {s \in S : st.seats[s].status = "AVAILABLE"}
        st1 == UpdateSeatRows(st, hit, "HELD", t)
    IN [st1 EXCEPT !.seat_bookings = @ \cup {<<id, s>> : s \in S}]

\* _update_event_capacity: UPDATE ... WHERE version = :read AND
\* available_capacity >= :quantity; on rowcount 0 the row is refreshed.
update_event_capacity(st, ev, q) ==
    IF st.event.version = ev.version /\ st.event.available_capacity >= q
    THEN UpdateEventRow(st, [st.event EXCEPT !.available_capacity = @ - q,
                                              !.version = @ + 1])
    ELSE IF st.event.available_capacity < q
         THEN Outcome("TypeError", st)        \* InsufficientCapacityError(<one message>)
         ELSE Outcome("ConcurrencyError", st)

\* The body of create_booking after validation, up to COMMIT.
create_booking_body(st, c, t) ==
    LET id == FreshId(st.bookings)
        st1 == InsertBooking(st, id, c.quantity, t + booking_hold_timeout_minutes)
        r2 == IF c.seat_ids # {}
              THEN Outcome("none", reserve_specific_seats(st1, id, c.seat_ids, t))
              ELSE update_event_capacity(st1, c.ev, c.quantity)
    IN IF r2.exc # "none" THEN r2
       ELSE Outcome("none", create_booking_history(r2.st, id, "CREATED"))

\* What one attempt of create_booking ends with: the exception `e` of the body
\* goes through the handler and then through retry_async.
CreateFail(p, c, e) ==
    LET raised == CreateHandler(e)
    IN IF Retryable(raised) /\ c.attempt < max_attempts - 1
       THEN Continue(p, [Idle EXCEPT !.op = "create", !.pc = "start",
                                     !.quantity = c.quantity, !.seat_ids = c.seat_ids,
                                     !.attempt = c.attempt + 1])
       ELSE Finish(p, "create", raised)

\* utils/retry.py: the positional parameters of retry_async, in order, before
\* its *args.
retry_async_parameters ==
    <<"func", "config", "retryable_exceptions", "non_retryable_exceptions">>

\* retry_on_concurrency_error's wrapper: retry_async(func, config,
\* retryable_exceptions=..., non_retryable_exceptions=..., *args, **kwargs).
\* Python binds the positional arguments func, config, *args to the parameters
\* in order; one that lands on a parameter also given by keyword is TypeError
\* "got multiple values for argument".
wrapper(args) ==
    LET positional == <<"func", "config">> \o args
        keywords == {"retryable_exceptions", "non_retryable_exceptions"}
    IN IF \E i \in 1..Len(positional) :
             i <= Len(retry_async_parameters) /\ retry_async_parameters[i] \in keywords
       THEN "TypeError"
       ELSE "bound"

\* create_booking as its callers reach it, through the decorator: the bound
\* method's self and the arguments passed by position are the wrapper's args.
DecoratedCreateCall(p, Requests) ==
    \E r \in Requests, by_position \in SUBSET {"user_id", "event_id", "quantity", "seat_ids"} :
        /\ calls[p].pc = "idle"
        /\ LET args == <<"self">> \o [i \in 1..Cardinality(by_position) |-> "argument"]
           IN IF wrapper(args) = "TypeError"
              THEN Finish(p, "create", "TypeError")
              ELSE Continue(p, [Idle EXCEPT !.op = "create", !.pc = "start",
                                            !.quantity = r[1], !.seat_ids = r[2]])
        /\ UNCHANGED <<now, event, seats, bookings, seat_bookings, history, released, waitlist, joined, broker>>

\* The function the decorator wraps is called with (quantity = r[1],
\* seat_ids = r[2]): the first attempt, as retry_async would run it, is about
\* to start.
CreateCall(p, Requests) ==
    \E r \in Requests :
        /\ calls[p].pc = "idle"
        /\ Continue(p, [Idle EXCEPT !.op = "create", !.pc = "start",
                                    !.quantity = r[1], !.seat_ids = r[2]])
        /\ UNCHANGED <<now, event, seats, bookings, seat_bookings, history, released, waitlist, joined, broker>>

\* One attempt of create_booking: SELECT the event, validate the request.
CreateRead(p) ==
    /\ calls[p].op = "create" /\ calls[p].pc = "start"
    /\ LET c == [calls[p] EXCEPT !.ev = EventSnapshot(event)]
           e == validate_booking_request(Store, c.quantity, c.seat_ids)
       IN IF e = "none" THEN Continue(p, [c EXCEPT !.pc = "write"])
          ELSE CreateFail(p, c, e)
    /\ UNCHANGED <<now, event, seats, bookings, seat_bookings, history, released, waitlist, joined, broker>>

\* The capacity UPDATE of this attempt finds no row: the attempt ends in an
\* exception whichever id the booking row got.
create_booking_rejected(st, c) ==
    c.seat_ids = {} /\ update_event_capacity(st, c.ev, c.quantity).exc # "none"

\* create_booking: INSERT the booking, reserve, write the history, COMMIT.
\* With MaxBookings rows in the table only an attempt that is rejected runs.
CreateWrite(p) ==
    /\ calls[p].op = "create" /\ calls[p].pc = "write"
    /\ Existing # BookingIds \/ create_booking_rejected(Store, calls[p])
    /\ LET r == IF Existing # BookingIds
                THEN create_booking_body(Store, calls[p], now)
                ELSE update_event_capacity(Store, calls[p].ev, calls[p].quantity)
       IN IF r.exc = "none"
          THEN Publish(r.st) /\ Finish(p, "create", "ok")
          ELSE Publish(Rollback(Store, r.st)) /\ CreateFail(p, calls[p], r.exc)
    /\ UNCHANGED now

\* SELECT a booking with its seat_bookings (_get_booking_with_relations).
BookingSnapshot(c, op, b) ==
    [c EXCEPT !.op = op, !.pc = "write", !.booking_id = b, !.bk = bookings[b],
              !.bk_seats = SeatsOf(seat_bookings, b)]

\* The unit of work flushes `UPDATE bookings SET ...` with the attributes whose
\* new value differs from the value loaded; the other columns keep what the
\* row holds now.
FlushBooking(st, id, loaded, status, expires_at) ==
    [st EXCEPT !.bookings[id] =
        [@ EXCEPT !.status = IF status # loaded.status THEN status ELSE @,
                  !.expires_at = IF expires_at # loaded.expires_at THEN expires_at ELSE @]]

\* _validate_booking_confirmation on the booking read, at time t.
validate_booking_confirmation(b, t) ==
    IF b.status # "PENDING" THEN "TypeError"   \* InvalidBookingStateError(<one message>)
    ELSE IF is_expired(b, t) THEN "BookingExpiredError"
    ELSE "none"

\* _validate_booking_cancellation on the booking read.
validate_booking_cancellation(b) ==
    IF b.status \notin {"PENDING", "CONFIRMED"}
    THEN "TypeError"                           \* InvalidBookingStateError(<one message>)
    ELSE "none"

\* _release_booking_capacity for the booking read by call c.
release_booking_capacity_NoRestore(st, c, t) ==
    Outcome("none", [st EXCEPT !.released[c.booking_id] = @ + 1])
release_booking_capacity(st, c, t) ==
    LET st1 == [st EXCEPT !.released[c.booking_id] = @ + 1]
    IN IF c.bk_seats # {}
       THEN Outcome("none", UpdateSeatRows(st1, c.bk_seats, "AVAILABLE", t))
       ELSE UpdateEventRow(st1, [st.event EXCEPT
                !.available_capacity = @ + c.bk.quantity,
                !.version = @ + 1])

\* confirm_booking: SELECT the booking, validate.
ConfirmReadOf(p, b) ==
    /\ calls[p].pc = "idle"
    /\ LET c == BookingSnapshot(calls[p], "confirm", b)
           e == validate_booking_confirmation(c.bk, now)
       IN IF e = "none" THEN Continue(p, c) ELSE Finish(p, "confirm", e)
    /\ UNCHANGED <<now, event, seats, bookings, seat_bookings, history, released, waitlist, joined, broker>>

ConfirmRead(p) == \E b \in Existing : ConfirmReadOf(p, b)

\* The writes of confirm_booking, up to COMMIT.
confirm_booking_body(st, c) ==
    LET st1 == FlushBooking(st, c.booking_id, c.bk, "CONFIRMED", NULL)
    IN Outcome("none", create_booking_history(st1, c.booking_id, "CONFIRMED"))

\* confirm_booking: the flush and COMMIT, then
\* send_booking_confirmation_task.delay(booking_id).
ConfirmWrite(p) ==
    /\ calls[p].op = "confirm" /\ calls[p].pc = "write"
    /\ Publish(delay(confirm_booking_body(Store, calls[p]).st,
                     Message("send_booking_confirmation_task", calls[p].booking_id, 0)))
    /\ Finish(p, "confirm", "ok")
    /\ UNCHANGED now

\* cancel_booking: SELECT the booking, validate.
CancelReadOf(p, b) ==
    /\ calls[p].pc = "idle"
    /\ LET c == BookingSnapshot(calls[p], "cancel", b)
           e == validate_booking_cancellation(c.bk)
       IN IF e = "none" THEN Continue(p, c) ELSE Finish(p, "cancel", e)
    /\ UNCHANGED <<now, event, seats, bookings, seat_bookings, history, released, waitlist, joined, broker>>

CancelRead(p) == \E b \in Existing : CancelReadOf(p, b)

\* The writes of cancel_booking, up to COMMIT.
cancel_booking_body(st, c, t) ==
    LET r1 == release_booking_capacity(st, c, t)
    IN IF r1.exc # "none" THEN r1
       ELSE Outcome("none",
                create_booking_history(
                    FlushBooking(r1.st, c.booking_id, c.bk, "CANCELLED", NULL),
                    c.booking_id, "CANCELLED"))

\* _notify_waitlist(event_id, quantity) of the booking read by call c.
notify_waitlist_message(c) ==
    Message("notify_waitlist_availability_task", c.booking_id, c.bk.quantity)

\* A transaction that has run its UPDATEs and not committed holds the locks
\* of the rows it wrote: the UPDATE of another transaction waits for it.
RowLocksFree(p) == \A q \in DOMAIN calls \ {p} : calls[q].pc # "commit"

\* cancel_booking from its UPDATEs on.  _notify_waitlist runs before COMMIT.
\* With the broker out of reach its .delay() raises and is swallowed, nothing
\* leaves the transaction before COMMIT, and the statements and the COMMIT
\* are one step.  With the broker up the message is on the queue while the
\* transaction is open: the call goes on to CancelCommit.
CancelWrite(p) ==
    /\ calls[p].op = "cancel" /\ calls[p].pc = "write"
    /\ LET r == cancel_booking_body(Store, calls[p], now)
       IN IF r.exc # "none"
          THEN Publish(Rollback(Store, r.st)) /\ Finish(p, "cancel", r.exc)
          ELSE IF broker.up
               THEN /\ RowLocksFree(p)
                    /\ Publish(delay(Store, notify_waitlist_message(calls[p])))
                    /\ Continue(p, [calls[p] EXCEPT !.pc = "commit"])
               ELSE Publish(r.st) /\ Finish(p, "cancel", "ok")
    /\ UNCHANGED now

\* cancel_booking: the flush and COMMIT, then
\* send_booking_cancellation_task.delay(booking_id).
CancelCommit(p) ==
    /\ calls[p].op = "cancel" /\ calls[p].pc = "commit"
    /\ LET r == cancel_booking_body(Store, calls[p], now)
       IN IF r.exc # "none"
          THEN Publish(Rollback(Store, r.st)) /\ Finish(p, "cancel", r.exc)
          ELSE /\ Publish(delay(r.st, Message("send_booking_cancellation_task",
                                              calls[p].booking_id, 0)))
               /\ Finish(p, "cancel", "ok")
    /\ UNCHANGED now

\* expire_booking: SELECT the booking; a booking that is not pending is
\* returned as it is.
ExpireReadOf_AnyStatus(p, b) ==
    /\ calls[p].pc = "idle"
    /\ Continue(p, BookingSnapshot(calls[p], "expire", b))
    /\ UNCHANGED <<now, event, seats, bookings, seat_bookings, history, released, waitlist, joined, broker>>
ExpireReadOf(p, b) ==
    /\ calls[p].pc = "idle"
    /\ LET c == BookingSnapshot(calls[p], "expire", b)
       IN IF c.bk.status # "PENDING" THEN Finish(p, "expire", "ok") ELSE Continue(p, c)
    /\ UNCHANGED <<now, event, seats, bookings, seat_bookings, history, released, waitlist, joined, broker>>

ExpireRead(p) == \E b \in Existing : ExpireReadOf(p, b)

\* The writes of expire_booking, up to COMMIT: expires_at is not assigned.
expire_booking_body(st, c, t) ==
    LET r1 == release_booking_capacity(st, c, t)
    IN IF r1.exc # "none" THEN r1
       ELSE Outcome("none",
                create_booking_history(
                    FlushBooking(r1.st, c.booking_id, c.bk, "EXPIRED", c.bk.expires_at),
                    c.booking_id, "EXPIRED"))

\* expire_booking from its UPDATEs on; _notify_waitlist runs before COMMIT,
\* as in cancel_booking.
ExpireWrite(p) ==
    /\ calls[p].op = "expire" /\ calls[p].pc = "write"
    /\ LET r == expire_booking_body(Store, calls[p], now)
       IN IF r.exc # "none"
          THEN Publish(Rollback(Store, r.st)) /\ Finish(p, "expire", r.exc)
          ELSE IF broker.up
               THEN /\ RowLocksFree(p)
                    /\ Publish(delay(Store, notify_waitlist_message(calls[p])))
                    /\ Continue(p, [calls[p] EXCEPT !.pc = "commit"])
               ELSE Publish(r.st) /\ Finish(p, "expire", "ok")
    /\ UNCHANGED now

\* expire_booking: the flush and COMMIT.
ExpireCommit(p) ==
    /\ calls[p].op = "expire" /\ calls[p].pc = "commit"
    /\ LET r == expire_booking_body(Store, calls[p], now)
       IN IF r.exc # "none"
          THEN Publish(Rollback(Store, r.st)) /\ Finish(p, "expire", r.exc)
          ELSE Publish(r.st) /\ Finish(p, "expire", "ok")
    /\ UNCHANGED now

\* --------------------------------------------------- BulkBookingService
\* create_bulk_booking: validate the quantity, SELECT the event, check the
\* capacity read.  The exception raised, or "none".
validate_bulk_request(st, q) ==
    IF q < BULK_MIN_QUANTITY THEN "ValidationError"
    ELSE IF q > BULK_MAX_QUANTITY THEN "ValidationError"
    ELSE IF st.event.available_capacity < q
         THEN "TypeError"          \* InsufficientCapacityError(<one message>)
         ELSE "none"

\* _find_contiguous_group over the seats of one row, sorted by number: the
\* first window of `q` seats with consecutive numbers, or {}.
find_contiguous_group(avail, q) ==
    LET starts == {i \in avail : \A k \in 0..(q - 1) : (i + k) \in avail}
    IN IF starts = {} THEN {}
       ELSE LET i == CHOOSE x \in starts : \A y \in starts : x <= y
            IN {i + k : k \in 0..(q - 1)}

\* The first n elements of a set of seat numbers, in ascending order.
RECURSIVE FirstN(_, _)
FirstN(S, n) ==
    IF n = 0 \/ S = {} THEN {}
    ELSE LET m == CHOOSE x \in S : \A y \in S : x <= y
         IN {m} \cup FirstN(S \ {m}, n - 1)

\* _find_best_seat_group: a contiguous group of the row when there is one,
\* else the first `q` seats of the query.
find_best_seat_group(avail, q) ==
    LET g == IF Cardinality(avail) >= q THEN find_contiguous_group(avail, q) ELSE {}
    IN IF g # {} THEN g ELSE FirstN(avail, q)

\* _assign_specific_seats / _auto_assign_seats, the SELECT: the seats to book,
\* or the exception raised.
bulk_select_seats(st, q, S) ==
    LET available == {s \in SeatIds : st.seats[s].status = "AVAILABLE"}
    IN IF S # {}
       THEN IF Cardinality(S \cap available) # Cardinality(S)
            THEN [exc |-> "ValidationError", seats |-> {}]
            ELSE [exc |-> "none", seats |-> S]
       ELSE LET found == FirstN({s \in available :
                                    st.seats[s].event_id = BookedEvent}, q * 2)
            IN IF Cardinality(found) < q
               THEN [exc |-> "TypeError", seats |-> {}]   \* InsufficientCapacityError(<one message>)
               ELSE [exc |-> "none", seats |-> find_best_seat_group(found, q)]

\* _process_bulk_booking, the writes up to COMMIT: the booking, its seats
\* (each UPDATE seats ... WHERE id = :id), and the capacity taken from the
\* event row without a predicate; no history row is written.
process_bulk_booking(st, c, t) ==
    LET id == FreshId(st.bookings)
        st1 == InsertBooking(st, id, c.quantity, t + BULK_EXPIRY_MINUTES)
        st2 == [UpdateSeatRows(st1, c.bk_seats, "BOOKED", t) EXCEPT
                    !.seat_bookings = @ \cup {<<id, s>> : s \in c.bk_seats}]
    IN UpdateEventRow(st2, [st2.event EXCEPT !.available_capacity = @ - c.quantity])

\* The bulk_booking:{event_id} lock: held by the process that is past the
\* lock acquisition of create_bulk_booking.
BulkLockHolders == {p \in DOMAIN calls : calls[p].op = "bulk" /\ calls[p].pc = "write"}

\* create_bulk_booking up to the lock.
BulkRead(p, SeatSets) ==
    \E q \in BULK_MIN_QUANTITY..MaxCapacity, S \in SeatSets :
        /\ calls[p].pc = "idle"
        /\ LET e == validate_bulk_request(Store, q)
               c == [calls[p] EXCEPT !.op = "bulk", !.pc = "locked", !.quantity = q,
                                     !.seat_ids = S, !.ev = EventSnapshot(event)]
           IN IF e = "none" THEN Continue(p, c) ELSE Finish(p, "bulk", e)
        /\ UNCHANGED <<now, event, seats, bookings, seat_bookings, history, released, waitlist, joined, broker>>

\* distributed_lock acquired; with seat selection, the seats are SELECTed.
BulkSelect(p) ==
    /\ calls[p].op = "bulk" /\ calls[p].pc = "locked"
    /\ BulkLockHolders = {}
    /\ IF event.has_seat_selection
       THEN LET r == bulk_select_seats(Store, calls[p].quantity, calls[p].seat_ids)
            IN IF r.exc = "none"
               THEN Continue(p, [calls[p] EXCEPT !.pc = "write", !.bk_seats = r.seats])
               ELSE Finish(p, "bulk", r.exc)
       ELSE Continue(p, [calls[p] EXCEPT !.pc = "write"])
    /\ UNCHANGED <<now, event, seats, bookings, seat_bookings, history, released, waitlist, joined, broker>>

\* The writes of _process_bulk_booking and COMMIT; the lock is released.
BulkWrite(p) ==
    /\ calls[p].op = "bulk" /\ calls[p].pc = "write"
    /\ Existing # BookingIds
    /\ LET r == process_bulk_booking(Store, calls[p], now)
       IN IF r.exc = "none"
          THEN Publish(r.st) /\ Finish(p, "bulk", "ok")
          ELSE Publish(Rollback(Store, r.st)) /\ Finish(p, "bulk", r.exc)
    /\ UNCHANGED now

\* ----------------------------------------------------------- EventService
\* update_event with total_capacity in the update: the values assigned to
\* the event object from the row that was loaded.
update_event_values(ev, new_total) ==
    LET booked_capacity == ev.total_capacity - ev.available_capacity
    IN [total_capacity |-> new_total,
        available_capacity |-> new_total - booked_capacity,
        version |-> ev.version + 1]

\* update_event: SELECT the event (get_event_by_id on a cache miss), check
\* the new capacity against the capacity in use.
UpdateRead(p) ==
    \E new_total \in 1..MaxCapacity :
        /\ calls[p].pc = "idle"
        /\ event.version < MaxVersion
        /\ LET c == [calls[p] EXCEPT !.op = "update", !.pc = "write", !.quantity = new_total,
                                     !.ev = EventSnapshot(event)]
           IN IF new_total < event.total_capacity - event.available_capacity
              THEN Finish(p, "update", "ValidationError")
              ELSE Continue(p, c)
        /\ UNCHANGED <<now, event, seats, bookings, seat_bookings, history, released, waitlist, joined, broker>>

\* The flush of update_event: UPDATE events SET <the attributes whose value
\* differs from the value loaded> WHERE id = :id, then COMMIT.
update_event_flush(st, c) ==
    LET new == update_event_values(c.ev, c.quantity)
    IN UpdateEventRow(st, [st.event EXCEPT
           !.total_capacity = IF new.total_capacity # c.ev.total_capacity
                              THEN new.total_capacity ELSE @,
           !.available_capacity = IF new.available_capacity # c.ev.available_capacity
                                  THEN new.available_capacity ELSE @,
           !.version = new.version])

UpdateWrite(p) ==
    /\ calls[p].op = "update" /\ calls[p].pc = "write"
    /\ LET r == update_event_flush(Store, calls[p])
       IN IF r.exc = "none"
          THEN Publish(r.st) /\ Finish(p, "update", "ok")
          ELSE Publish(Rollback(Store, r.st)) /\ Finish(p, "update", "ValidationError")
    /\ UNCHANGED now

\* ------------------------------------------------------------ SeatService
\* check_seat_availability(seat_ids).all_available on the rows read.
all_available(st, S) == \A s \in S : st.seats[s].status = "AVAILABLE"

\* hold_seats: SELECT the seats; any seat not AVAILABLE ends the call
\* (SeatNotAvailableError takes (seat_id, current_status): TypeError).
HoldReadOf(p, S) ==
    /\ calls[p].pc = "idle"
    /\ IF all_available(Store, S)
       THEN Continue(p, [calls[p] EXCEPT !.op = "hold", !.pc = "write", !.seat_ids = S])
       ELSE Finish(p, "hold", "TypeError")
    /\ UNCHANGED <<now, event, seats, bookings, seat_bookings, history, released, waitlist, joined, broker>>

HoldRead(p) == \E S \in (SUBSET SeatIds) \ {{}} : HoldReadOf(p, S)

\* UPDATE seats SET status = HELD WHERE id IN :ids AND status = AVAILABLE.
hold_seats_update(st, S, t) ==
    UpdateSeatRows(st, {s \in S : st.seats[s].status = "AVAILABLE"}, "HELD", t)

\* hold_seats: the UPDATE and COMMIT; every seat id asked for is reported held.
HoldWrite(p) ==
    /\ calls[p].op = "hold" /\ calls[p].pc = "write"
    /\ Publish(hold_seats_update(Store, calls[p].seat_ids, now))
    /\ Finish(p, "hold", "ok")
    /\ UNCHANGED now

\* UPDATE seats SET status = AVAILABLE WHERE id IN :ids AND status = HELD.
release_held_seats_update_AnyStatus(st, S, t) ==
    UpdateSeatRows(st, S, "AVAILABLE", t)
release_held_seats_update(st, S, t) ==
    UpdateSeatRows(st, {s \in S : st.seats[s].status = "HELD"}, "AVAILABLE", t)

\* release_held_seats: one UPDATE and COMMIT.
ReleaseHeldOf(p, S) ==
    /\ calls[p].pc = "idle"
    /\ Publish(release_held_seats_update(Store, S, now))
    /\ Finish(p, "release", "ok")
    /\ UNCHANGED now

ReleaseHeld(p) == \E S \in (SUBSET SeatIds) \ {{}} : ReleaseHeldOf(p, S)

\* cleanup_expired_holds, the SELECT: HELD seats last written more than
\* SEAT_HOLD_DURATION minutes before t.
expired_holds(st, t) ==
    {s \in SeatIds : st.seats[s].status = "HELD"
                      /\ st.seats[s].updated_at < t - SEAT_HOLD_DURATION}

CleanupRead(p) ==
    /\ calls[p].pc = "idle"
    /\ LET held_seats == expired_holds(Store, now)
       IN IF held_seats = {}
          THEN Finish(p, "cleanup", "ok")
          ELSE Continue(p, [calls[p] EXCEPT !.op = "cleanup", !.pc = "write",
                                            !.seat_ids = held_seats])
    /\ UNCHANGED <<now, event, seats, bookings, seat_bookings, history, released, waitlist, joined, broker>>

\* cleanup_expired_holds: UPDATE seats SET status = AVAILABLE WHERE id IN
\* :ids, whatever their status is by now, and COMMIT.
CleanupWrite(p) ==
    /\ calls[p].op = "cleanup" /\ calls[p].pc = "write"
    /\ Publish(UpdateSeatRows(Store, calls[p].seat_ids, "AVAILABLE", now))
    /\ Finish(p, "cleanup", "ok")
    /\ UNCHANGED now

\* ------------------------------------------------------- WaitlistService
\* Every method runs in `async with session.begin()` and commits at its end.

MaxOf(S) == CHOOSE x \in S : \A y \in S : y <= x

\* The orders in which a query can return the rows S.
Orders(S) == {sq \in [1..Cardinality(S) -> S] :
                 \A i, j \in 1..Cardinality(S) : i # j => sq[i] # sq[j]}

\* The rows of the waitlist table.
WaitlistRows(wl) == {w \in WaitlistIds : wl[w].status \in WaitlistStatus}

\* uuid4(): a fresh primary key.  Rows are numbered in the order they commit,
\* and the id of a deleted row is not used again.
FreshEntry(wl) == CHOOSE w \in WaitlistIds :
                     /\ wl[w].status = "NONE"
                     /\ \A v \in WaitlistIds : v < w => wl[v].status # "NONE"

\* _get_user_waitlist_entry: the user's ACTIVE or NOTIFIED entry, 0 for None.
get_user_waitlist_entry(wl, u) ==
    LET found == {w \in WaitlistRows(wl) :
                     /\ wl[w].user_id = u
                     /\ wl[w].status \in {"ACTIVE", "NOTIFIED"}}
    IN IF found = {} THEN 0 ELSE CHOOSE w \in found : TRUE

\* _get_next_waitlist_position: max(position) over every row of the event,
\* whatever its status, plus one.
get_next_waitlist_position(wl) ==
    MaxOf({wl[w].position : w \in WaitlistRows(wl)} \cup {0}) + 1

\* _get_active_waitlist_entries: the ACTIVE entries ORDER BY position ASC;
\* rows of equal position come in either order.
get_active_waitlist_entries(wl) ==
    LET active == {w \in WaitlistRows(wl) : wl[w].status = "ACTIVE"}
    IN {sq \in Orders(active) :
           \A i, j \in 1..Len(sq) : i < j => wl[sq[i]].position <= wl[sq[j]].position}

\* _reorder_waitlist_after_removal: UPDATE waitlist SET position = position - 1
\* WHERE position > :removed AND status IN (ACTIVE, NOTIFIED); the UPDATE
\* stamps updated_at (onupdate).
reorder_waitlist_after_removal_AnyStatus(wl, removed_position, t) ==
    [w \in WaitlistIds |->
        IF /\ wl[w].status \in WaitlistStatus
           /\ wl[w].position > removed_position
        THEN [wl[w] EXCEPT !.position = @ - 1, !.updated_at = t]
        ELSE wl[w]]
reorder_waitlist_after_removal(wl, removed_position, t) ==
    [w \in WaitlistIds |->
        IF /\ wl[w].status \in {"ACTIVE", "NOTIFIED"}
           /\ wl[w].position > removed_position
        THEN [wl[w] EXCEPT !.position = @ - 1, !.updated_at = t]
        ELSE wl[w]]

\* UniqueConstraint("user_id", "event_id", name="uq_waitlist_user_event"):
\* may a row of user u be inserted?  The constraint covers rows of every
\* status.
uq_waitlist_user_event_Absent(wl, u) == TRUE
uq_waitlist_user_event(wl, u) ==
    \A w \in WaitlistRows(wl) : wl[w].user_id # u

\* The flush of a changed entry: UPDATE waitlist SET ... WHERE id = :id.  A
\* row that is gone makes the flush fail (StaleDataError).
Stale(wl, ids) == \E w \in ids : wl[w].status \notin WaitlistStatus

\* join_waitlist up to the INSERT: _get_event, the sold-out check, the
\* search for the user's entry and the next position.
JoinReadOf(p, u, q) ==
    /\ calls[p].pc = "idle"
    /\ \E w \in WaitlistIds : waitlist[w].status = "NONE"
    /\ IF event.available_capacity >= q
       THEN Finish(p, "join", "EventNotSoldOutError")
       ELSE IF get_user_waitlist_entry(waitlist, u) # 0
       THEN Finish(p, "join", "AlreadyOnWaitlistError")
       ELSE Continue(p, [calls[p] EXCEPT !.op = "join", !.pc = "write",
                                         !.user_id = u, !.quantity = q,
                                         !.position = get_next_waitlist_position(waitlist)])
    /\ UNCHANGED <<now, event, seats, bookings, seat_bookings, history, released, waitlist, joined, broker>>

JoinRead(p) == \E u \in UserIds, q \in Quantities : JoinReadOf(p, u, q)

\* The INSERT and COMMIT of join_waitlist.  An IntegrityError that names
\* uq_waitlist_user_event is turned into AlreadyOnWaitlistError.
JoinWrite(p) ==
    /\ calls[p].op = "join" /\ calls[p].pc = "write"
    /\ LET c == calls[p]
       IN IF ~uq_waitlist_user_event(waitlist, c.user_id)
          THEN /\ Publish(Rollback(Store, Store))
               /\ Finish(p, "join", "AlreadyOnWaitlistError")
          ELSE /\ \E w \in WaitlistIds : waitlist[w].status = "NONE"
               /\ Publish([Store EXCEPT
                     !.waitlist[FreshEntry(waitlist)] =
                         [user_id |-> c.user_id, requested_quantity |-> c.quantity,
                          position |-> c.position, status |-> "ACTIVE",
                          updated_at |-> now],
                     !.joined = [user_id |-> c.user_id, rows |-> waitlist]])
               /\ Finish(p, "join", "ok")
    /\ UNCHANGED now

\* leave_waitlist up to the DELETE.
LeaveReadOf(p, u) ==
    /\ calls[p].pc = "idle"
    /\ LET w == get_user_waitlist_entry(waitlist, u)
       IN IF w = 0
          THEN Finish(p, "leave", "False")
          ELSE Continue(p, [calls[p] EXCEPT !.op = "leave", !.pc = "write",
                                            !.user_id = u, !.waitlist_ids = <<w>>,
                                            !.position = waitlist[w].position])
    /\ UNCHANGED <<now, event, seats, bookings, seat_bookings, history, released, waitlist, joined, broker>>

LeaveRead(p) == \E u \in UserIds : LeaveReadOf(p, u)

\* session.delete(entry), _reorder_waitlist_after_removal and COMMIT.
leave_waitlist_body(st, c, t) ==
    LET w == c.waitlist_ids[1]
    IN IF Stale(st.waitlist, {w})
       THEN Outcome("WaitlistError", st)
       ELSE Outcome("none",
               [st EXCEPT !.waitlist = reorder_waitlist_after_removal(
                                          [st.waitlist EXCEPT ![w] = [NoEntry EXCEPT !.status = "DELETED"]],
                                          c.position, t),
                          !.joined = NoJoin])

LeaveWrite(p) ==
    /\ calls[p].op = "leave" /\ calls[p].pc = "write"
    /\ LET out == leave_waitlist_body(Store, calls[p], now)
       IN IF out.exc = "none"
          THEN Publish(out.st) /\ Finish(p, "leave", "True")
          ELSE Publish(Rollback(Store, out.st)) /\ Finish(p, "leave", out.exc)
    /\ UNCHANGED now

\* The loop of notify_waitlist over the entries sq with `remaining` tickets
\* left: the ids of the entries it sets NOTIFIED.  An entry that asks for
\* more than remains is passed over and the loop goes on; the loop ends when
\* nothing remains.
RECURSIVE notify_loop_HeadOfLine(_, _, _)
notify_loop_HeadOfLine(wl, sq, remaining) ==
    IF sq = <<>> \/ remaining <= 0 THEN {}
    ELSE IF wl[Head(sq)].requested_quantity <= remaining
    THEN {Head(sq)} \cup notify_loop_HeadOfLine(wl, Tail(sq),
                             remaining - wl[Head(sq)].requested_quantity)
    ELSE {}
RECURSIVE notify_loop(_, _, _)
notify_loop(wl, sq, remaining) ==
    IF sq = <<>> \/ remaining <= 0 THEN {}
    ELSE IF wl[Head(sq)].requested_quantity <= remaining
    THEN {Head(sq)} \cup notify_loop(wl, Tail(sq),
                             remaining - wl[Head(sq)].requested_quantity)
    ELSE notify_loop(wl, Tail(sq), remaining)

\* notify_waitlist(event_id, available_quantity): the SELECT of the ACTIVE
\* entries and the loop over them, which calls
\* notify_waitlist_availability_task.delay(event_id, requested_quantity) for
\* each entry it marks, before anything is flushed.
NotifyReadOf(p, aq, sq) ==
    /\ calls[p].pc = "idle"
    /\ sq \in get_active_waitlist_entries(waitlist)
    /\ Continue(p, [calls[p] EXCEPT !.op = "notify", !.pc = "write",
                                    !.quantity = aq, !.waitlist_ids = sq])
    /\ broker' = IF broker.up
                 THEN [broker EXCEPT !.queue = @ \cup
                         {Message("notify_waitlist_availability_task", 0,
                                  waitlist[w].requested_quantity) :
                             w \in notify_loop(waitlist, sq, aq)}]
                 ELSE broker
    /\ UNCHANGED <<now, event, seats, bookings, seat_bookings, history, released, waitlist, joined>>

NotifyRead(p) ==
    \E aq \in Quantities, sq \in get_active_waitlist_entries(waitlist) :
        NotifyReadOf(p, aq, sq)

\* The loop of notify_waitlist, the flush of the entries it changed and
\* COMMIT.  requested_quantity never changes after the INSERT, so the value
\* the loop read is the value of the row.
notify_waitlist_body(st, c, t) ==
    LET notified == notify_loop(st.waitlist, c.waitlist_ids, c.quantity)
    IN IF Stale(st.waitlist, notified)
       THEN Outcome("WaitlistError", st)
       ELSE Outcome("none",
               [st EXCEPT !.waitlist = [w \in WaitlistIds |->
                                           IF w \in notified
                                           THEN [st.waitlist[w] EXCEPT !.status = "NOTIFIED",
                                                                       !.updated_at = t]
                                           ELSE st.waitlist[w]],
                          !.joined = NoJoin])

NotifyWrite(p) ==
    /\ calls[p].op = "notify" /\ calls[p].pc = "write"
    /\ LET out == notify_waitlist_body(Store, calls[p], now)
       IN IF out.exc = "none"
          THEN Publish(out.st) /\ Finish(p, "notify", "ok")
          ELSE Publish(Rollback(Store, out.st)) /\ Finish(p, "notify", out.exc)
    /\ UNCHANGED now

\* convert_waitlist_to_booking(waitlist_id, booking_id): _get_waitlist_entry.
\* The entry is looked up by id alone, whatever its status.
ConvertReadOf(p, w) ==
    /\ calls[p].pc = "idle"
    /\ IF waitlist[w].status \notin WaitlistStatus
       THEN Finish(p, "convert", "WaitlistNotFoundError")
       ELSE Continue(p, [calls[p] EXCEPT !.op = "convert", !.pc = "write",
                                         !.waitlist_ids = <<w>>,
                                         !.entry = waitlist[w],
                                         !.position = waitlist[w].position])
    /\ UNCHANGED <<now, event, seats, bookings, seat_bookings, history, released, waitlist, joined, broker>>

ConvertRead(p) == \E w \in WaitlistIds : ConvertReadOf(p, w)

\* status = CONVERTED (flushed when it differs from the status loaded),
\* _reorder_waitlist_after_removal at the entry's position, COMMIT.  The
\* entry keeps its position.
convert_waitlist_to_booking_body(st, c, t) ==
    LET w == c.waitlist_ids[1]
        changed == c.entry.status # "CONVERTED"
    IN IF changed /\ Stale(st.waitlist, {w})
       THEN Outcome("StaleDataError", st)
       ELSE LET flushed == IF changed
                           THEN [st.waitlist EXCEPT ![w].status = "CONVERTED",
                                                    ![w].updated_at = t]
                           ELSE st.waitlist
            IN Outcome("none",
                  [st EXCEPT !.waitlist = reorder_waitlist_after_removal(flushed, c.position, t),
                             !.joined = NoJoin])

ConvertWrite(p) ==
    /\ calls[p].op = "convert" /\ calls[p].pc = "write"
    /\ LET out == convert_waitlist_to_booking_body(Store, calls[p], now)
       IN IF out.exc = "none"
          THEN Publish(out.st) /\ Finish(p, "convert", "ok")
          ELSE Publish(Rollback(Store, out.st)) /\ Finish(p, "convert", out.exc)
    /\ UNCHANGED now

\* expire_waitlist_notifications: the SELECT of the NOTIFIED entries whose
\* updated_at is before utcnow() - waitlist_notification_timeout_hours.  The
\* query has no ORDER BY: the rows come in any order.
timed_out(wl, t) ==
    {w \in WaitlistRows(wl) :
        /\ wl[w].status = "NOTIFIED"
        /\ wl[w].updated_at < t - waitlist_notification_timeout_hours * 60}

ExpireNotificationsReadOf(p, sq) ==
    /\ calls[p].pc = "idle"
    /\ sq \in Orders(timed_out(waitlist, now))
    /\ Continue(p, [calls[p] EXCEPT !.op = "expire_notifications", !.pc = "write",
                                    !.waitlist_ids = sq])
    /\ UNCHANGED <<now, event, seats, bookings, seat_bookings, history, released, waitlist, joined, broker>>

ExpireNotificationsRead(p) ==
    \E sq \in Orders(timed_out(waitlist, now)) : ExpireNotificationsReadOf(p, sq)

\* The loop of expire_waitlist_notifications: each entry in turn gets the
\* position after the highest one of the table, its own old position
\* included, and goes back to ACTIVE.
RECURSIVE expire_loop(_, _, _)
expire_loop(wl, sq, t) ==
    IF sq = <<>> THEN wl
    ELSE expire_loop([wl EXCEPT ![Head(sq)].position = get_next_waitlist_position(wl),
                                ![Head(sq)].status = "ACTIVE",
                                ![Head(sq)].updated_at = t],
                     Tail(sq), t)

expire_waitlist_notifications_body(st, c, t) ==
    IF Stale(st.waitlist, {c.waitlist_ids[i] : i \in 1..Len(c.waitlist_ids)})
    THEN Outcome("WaitlistError", st)
    ELSE Outcome("none",
            [st EXCEPT !.waitlist = expire_loop(st.waitlist, c.waitlist_ids, t),
                       !.joined = NoJoin])

ExpireNotificationsWrite(p) ==
    /\ calls[p].op = "expire_notifications" /\ calls[p].pc = "write"
    /\ LET out == expire_waitlist_notifications_body(Store, calls[p], now)
       IN IF out.exc = "none"
          THEN Publish(out.st) /\ Finish(p, "expire_notifications", "ok")
          ELSE Publish(Rollback(Store, out.st))
               /\ Finish(p, "expire_notifications", out.exc)
    /\ UNCHANGED now

\* A notification window passes.
WaitlistClockStep == waitlist_notification_timeout_hours * 60

\* ------------------------------------------------------- periodic tasks
\* tasks/celery_app.py: the tasks celery beat sends to the worker.
beat_schedule ==
    {"expire_bookings_task", "cleanup_expired_bookings_task",
     "expire_waitlist_notifications_task"}

\* BookingService.get_expired_bookings: status = PENDING AND expires_at < now.
get_expired_bookings(bk, t) ==
    {b \in BookingIds : bk[b].status = "PENDING" /\ bk[b].expires_at < t}

\* expire_bookings_task up to its loop: the task's session runs the SELECT of
\* get_expired_bookings(limit=100), which begins the session's transaction.
ExpireBookingsSelect(p) ==
    /\ "expire_bookings_task" \in beat_schedule
    /\ calls[p].pc = "idle"
    /\ \E sq \in Orders(get_expired_bookings(bookings, now)) :
          LET n == IF Len(sq) < expired_bookings_limit THEN Len(sq)
                   ELSE expired_bookings_limit
              expired_bookings == SubSeq(sq, 1, n)
          IN IF expired_bookings = <<>>
             THEN Finish(p, "expire_bookings_task", "expired_count 0")
             ELSE Continue(p, [Idle EXCEPT !.op = "expire_bookings_task", !.pc = "loop",
                                           !.booking_ids = expired_bookings,
                                           !.in_transaction = TRUE])
    /\ UNCHANGED <<now, event, seats, bookings, seat_bookings, history, released, waitlist, joined, broker>>

\* Session.begin() on a session whose transaction has begun raises
\* InvalidRequestError ("A transaction is already begun on this Session").
session_begin(in_transaction) ==
    IF in_transaction THEN "InvalidRequestError" ELSE "begun"

\* expire_bookings_task, its loop: expire_booking(booking.id) of the first row
\* opens `async with self.session.begin()` on the task's session and raises;
\* its handler rolls back, which expires every loaded row, and re-raises.  The
\* task's handler formats booking.id of the expired row for its log line,
\* which needs a load outside a greenlet (MissingGreenlet): the run ends and
\* no row has been written.
ExpireBookingsLoop(p) ==
    /\ calls[p].op = "expire_bookings_task" /\ calls[p].pc = "loop"
    /\ Head(calls[p].booking_ids) \in BookingIds
    /\ session_begin(calls[p].in_transaction) = "InvalidRequestError"
    /\ Publish(Rollback(Store, Store))
    /\ Finish(p, "expire_bookings_task", "MissingGreenlet")
    /\ UNCHANGED now

\* cleanup_expired_bookings_task: opens a session and returns.
CleanupExpiredBookings(p) ==
    /\ "cleanup_expired_bookings_task" \in beat_schedule
    /\ calls[p].pc = "idle"
    /\ Finish(p, "cleanup_expired_bookings_task", "cleaned_count 0")
    /\ UNCHANGED <<now, event, seats, bookings, seat_bookings, history, released, waitlist, joined, broker>>

\* expire_waitlist_notifications_task: one call of
\* WaitlistService.expire_waitlist_notifications.
ExpireWaitlistNotificationsTask(p) ==
    /\ "expire_waitlist_notifications_task" \in beat_schedule
    /\ ExpireNotificationsRead(p)

\* ------------------------------------------------ DynamicPricingService
\* _calculate_waitlist_multiplier, the waitlist pressure as a fraction:
\* waitlist_size / available_capacity, and waitlist_size / 10 for an event
\* with nothing left.
waitlist_pressure_MaxBaseline(waitlist_size, available_capacity) ==
    [num |-> waitlist_size,
     den |-> IF available_capacity > SoldOutBaseline THEN available_capacity
             ELSE SoldOutBaseline]
waitlist_pressure(waitlist_size, available_capacity) ==
    [num |-> waitlist_size,
     den |-> IF available_capacity > 0 THEN available_capacity ELSE SoldOutBaseline]

\* _calculate_waitlist_multiplier, in hundredths (1.3 is 130): 1.0 for an
\* empty waitlist, else by the thresholds 2.0, 1.0 and 0.5 on the pressure.
calculate_waitlist_multiplier(waitlist_size, available_capacity) ==
    IF waitlist_size = 0 THEN 100
    ELSE LET pr == waitlist_pressure(waitlist_size, available_capacity)
         IN IF pr.num >= 2 * pr.den THEN 130
            ELSE IF pr.num >= pr.den THEN 115
            ELSE IF 2 * pr.num >= pr.den THEN 105
            ELSE 100

\* One call of _calculate_waitlist_multiplier(event).
CalculateWaitlistMultiplier ==
    /\ pricing.multiplier = NULL
    /\ pricing' = [pricing EXCEPT !.multiplier =
                      calculate_waitlist_multiplier(pricing.waitlist_size,
                                                    pricing.available_capacity)]
    /\ UNCHANGED <<now, event, seats, bookings, seat_bookings, history, released, calls,
                   returned, mark, waitlist, joined, lock_key, locks, broker>>

\* --------------------------------------------------- notification tasks
\* tasks/notification_tasks.py, run by the celery worker for a message it
\* takes from the queue.
WaitlistServiceMethods ==
    {"join_waitlist", "leave_waitlist", "notify_waitlist", "convert_waitlist_to_booking",
     "expire_waitlist_notifications", "get_user_waitlist_entries", "get_event_waitlist",
     "get_waitlist_stats", "get_user_waitlist_position"}

\* waitlist_service.<name>: the bound method, or AttributeError.
waitlist_service_getattr(name) ==
    IF name \in WaitlistServiceMethods THEN "method" ELSE "AttributeError"

\* notify_waitlist_availability_task(event_id, available_quantity): the first
\* statement of _notify_waitlist after the session is opened evaluates
\* waitlist_service.get_next_waitlist_entries, which WaitlistService does not
\* define; `except Exception` returns {"status": "error"} and no row is
\* written.
NotifyWaitlistAvailabilityTask(p) ==
    /\ calls[p].pc = "idle"
    /\ \E m \in broker.queue :
          /\ m.task = "notify_waitlist_availability_task"
          /\ waitlist_service_getattr("get_next_waitlist_entries") = "AttributeError"
          /\ Publish([Store EXCEPT !.broker.queue = @ \ {m}])
    /\ Finish(p, "notify_waitlist_availability_task", "status error")
    /\ UNCHANGED now

\* send_booking_confirmation_task / send_booking_cancellation_task: the
\* worker takes the message and hands the booking to NotificationService,
\* which writes none of the rows kept here.
SendBookingNotificationTask(p) ==
    /\ calls[p].pc = "idle"
    /\ \E m \in broker.queue :
          /\ m.task \in {"send_booking_confirmation_task", "send_booking_cancellation_task"}
          /\ Publish([Store EXCEPT !.broker.queue = @ \ {m}])
          /\ Finish(p, m.task, "done")
    /\ UNCHANGED now

\* ------------------------------------------------------- DistributedLock
\* cache.py.  A lock object is used the way `async with` uses it: acquire(),
\* and release() by the object whose acquire() returned True.  Identifiers
\* (utcnow().timestamp() and id(self)) of different lock objects differ.  A
\* command that ends in RedisError may or may not have been carried out by
\* the server.  The key's TTL (EX timeout) may run out at any moment.
LockProcs == 1..NumHolders

NewLock(i) == [pc |-> "ready", identifier |-> i, blocking |-> TRUE,
               has_timeout |-> FALSE, outcome |-> "none"]

\* What one command on the lock gives: the lock object, the key and the value
\* returned ("none" while acquire sleeps before its next pass).
LockOutcome(l, pc, outcome, key, result) ==
    [lock |-> [l EXCEPT !.pc = pc, !.outcome = outcome], key |-> key, result |-> result]

LockStep(p, o, op) ==
    /\ lock_key' = o.key
    /\ locks' = [locks EXCEPT ![p] = o.lock]
    /\ returned' = IF o.result = "none" THEN NoReturn ELSE [op |-> op, result |-> o.result]
    /\ UNCHANGED <<now, event, seats, bookings, seat_bookings, history, released, calls,
                   mark, waitlist, joined, broker, pricing>>

\* SET key identifier EX timeout, without NX.
set_nx_Overwrite(key, identifier) == [acquired |-> TRUE, key |-> identifier]

\* SET key identifier NX EX timeout.
set_nx(key, identifier) ==
    IF key = NULL THEN [acquired |-> TRUE, key |-> identifier]
    ELSE [acquired |-> FALSE, key |-> key]

\* acquire, one pass of its `while True` loop: the outcomes it can have.
acquire_pass(key, l) ==
    LET r == set_nx(key, l.identifier)
    IN {LockOutcome(l, "ready", "RedisError", k, "False") : k \in {key, r.key}}
       \cup
       (IF r.acquired
        THEN {LockOutcome(l, "held", "acquired", r.key, "True")}
        ELSE IF ~l.blocking
        THEN {LockOutcome(l, "ready", "busy", r.key, "False")}
        ELSE {LockOutcome(l, "acquiring", "waiting", r.key, "none")}
             \cup {LockOutcome(l, "ready", "deadline", r.key, "False") : x \in
                       IF l.has_timeout THEN {1} ELSE {}})

\* acquire(blocking, timeout) up to the end of the first pass.
acquire(key, l, blocking, has_timeout) ==
    {LockOutcome(l, "ready", "no_client", key, "False")}
    \cup acquire_pass(key, [l EXCEPT !.blocking = blocking, !.has_timeout = has_timeout])

AcquireCall(p) ==
    /\ locks[p].pc = "ready"
    /\ \E blocking \in BOOLEAN, has_timeout \in BOOLEAN :
          \E o \in acquire(lock_key, locks[p], blocking, has_timeout) :
             LockStep(p, o, "acquire")

\* acquire after asyncio.sleep(0.1): the next pass.
AcquireRetry(p) ==
    /\ locks[p].pc = "acquiring"
    /\ \E o \in acquire_pass(lock_key, locks[p]) : LockStep(p, o, "acquire")

\* DEL key, whatever it holds.
release_script_Unconditional(key, identifier) ==
    [deleted |-> IF key = NULL THEN 0 ELSE 1, key |-> NULL]

\* release's Lua script: if GET key == identifier then DEL key else 0.
release_script(key, identifier) ==
    IF key = identifier THEN [deleted |-> 1, key |-> NULL]
    ELSE [deleted |-> 0, key |-> key]

\* release: the outcomes it can have.
release(key, l) ==
    LET r == release_script(key, l.identifier)
    IN {LockOutcome(l, "ready", "no_client", key, "False")}
       \cup {LockOutcome(l, "ready", "RedisError", k, "False") : k \in {key, r.key}}
       \cup {IF r.deleted # 0
              THEN LockOutcome(l, "ready", "released", r.key, "True")
              ELSE LockOutcome(l, "ready", "not_owner", r.key, "False")}

Release(p) ==
    /\ locks[p].pc = "held"
    /\ \E o \in release(lock_key, locks[p]) : LockStep(p, o, "release")

\* The identifier of a lock object under construction: one that no lock object
\* in use and no stored key carries.
FreshIdentifier ==
    CHOOSE i \in 1..NumHolders :
        /\ i # lock_key
        /\ \A q \in DOMAIN locks : locks[q].pc # "ready" => locks[q].identifier # i
        /\ \A k \in 1..(i - 1) :
              \/ k = lock_key
              \/ \E q \in DOMAIN locks : locks[q].pc # "ready" /\ locks[q].identifier = k

\* create_booking, `async with distributed_lock(lock_key, timeout=30)`:
\* __aenter__ after a pass of acquire().  With the lock the body starts;
\* when acquire() returned False, RuntimeError leaves create_booking.
aenter(p, c, o) ==
    /\ lock_key' = o.key
    /\ locks' = [locks EXCEPT ![p] = o.lock]
    /\ calls' = [calls EXCEPT ![p] =
          CASE o.lock.pc = "held" -> [c EXCEPT !.pc = "start"]
            [] o.lock.pc = "acquiring" -> [c EXCEPT !.pc = "lock"]
            [] OTHER -> Idle]
    /\ returned' = IF o.lock.pc = "ready"
                   THEN [op |-> "create", result |-> "RuntimeError"]
                   ELSE NoReturn
    /\ UNCHANGED <<now, event, seats, bookings, seat_bookings, history, released, mark,
                   waitlist, joined, broker, pricing>>

\* create_booking's body called directly, up to the first pass of acquire().
LockedCreateCall(p, Requests) ==
    /\ calls[p].pc = "idle" /\ locks[p].pc = "ready"
    /\ \E r \in Requests :
          \E o \in acquire(lock_key, NewLock(FreshIdentifier), TRUE, FALSE) :
             aenter(p, [Idle EXCEPT !.op = "create", !.quantity = r[1],
                                    !.seat_ids = r[2]], o)

\* create_booking waiting for the lock: the next pass of acquire().
LockedCreateWait(p) ==
    /\ calls[p].op = "create" /\ calls[p].pc = "lock"
    /\ \E o \in acquire_pass(lock_key, locks[p]) : aenter(p, calls[p], o)

\* create_booking, __aexit__ once the body has returned or raised.
LockedCreateExit(p) ==
    /\ calls[p].pc = "idle" /\ locks[p].pc = "held"
    /\ \E o \in release(lock_key, locks[p]) :
          /\ lock_key' = o.key
          /\ locks' = [locks EXCEPT ![p] = o.lock]
    /\ UNCHANGED <<now, event, seats, bookings, seat_bookings, history, released, calls,
                   returned, mark, waitlist, joined, broker, pricing>>

\* The key's TTL runs out.
KeyExpires ==
    /\ lock_key # NULL
    /\ lock_key' = NULL
    /\ returned' = NoReturn
    /\ UNCHANGED <<now, event, seats, bookings, seat_bookings, history, released, calls,
                   mark, waitlist, joined, locks, broker, pricing>>

TickDay ==
    /\ now < MaxDays * WaitlistClockStep
    /\ now' = now + WaitlistClockStep
    /\ returned' = NoReturn
    /\ UNCHANGED <<event, seats, bookings, seat_bookings, history, released, calls, mark,
                   waitlist, joined, lock_key, locks, broker, pricing>>

\* Time passes.
Tick ==
    /\ now < MaxTicks * ClockStep
    /\ now' = now + ClockStep
    /\ returned' = NoReturn
    /\ UNCHANGED <<event, seats, bookings, seat_bookings, history, released, calls, mark,
                   waitlist, joined, lock_key, locks, broker, pricing>>

\* ------------------------------------------------------------ specification
NoMark == [total_capacity |-> 0, available_capacity |-> 0, version |-> 0,
           has_seat_selection |-> FALSE]

\* One active event, just created by create_event (available_capacity =
\* total_capacity, version 1); no booking yet.
InitTables(hs, Totals) ==
    /\ now = 0
    /\ \E total \in Totals :
          event = [total_capacity |-> total, available_capacity |-> total,
                   version |-> 1, has_seat_selection |-> hs]
    /\ seats = [s \in SeatIds |-> [event_id |-> BookedEvent, status |-> "AVAILABLE", updated_at |-> 0]]
    /\ bookings = [b \in BookingIds |-> NoBooking]
    /\ seat_bookings = {}
    /\ history = [b \in BookingIds |-> <<>>]
    /\ released = [b \in BookingIds |-> 0]
    /\ NoWaitlist

InitRows(hs, Totals) ==
    /\ InitTables(hs, Totals)
    /\ NoLocks

Init ==
    /\ InitRows(FALSE, 1..MaxCapacity)
    /\ calls = [p \in Procs |-> Idle]
    /\ returned = NoReturn
    /\ mark = NoMark
    /\ NoBroker
    /\ NoPricing

\* The booking lifecycle on a general-admission event: concurrent
\* create_booking, confirm_booking, cancel_booking and expire_booking calls.

Next ==
    \/ \E p \in Procs : CreateCall(p, GeneralRequests)
    \/ \E p \in Procs : CreateRead(p)
    \/ \E p \in Procs : CreateWrite(p)
    \/ \E p \in Procs : ConfirmRead(p)
    \/ \E p \in Procs : ConfirmWrite(p)
    \/ \E p \in Procs : CancelRead(p)
    \/ \E p \in Procs : CancelWrite(p)
    \/ \E p \in Procs : ExpireRead(p)
    \/ \E p \in Procs : ExpireWrite(p)
    \/ Tick

Spec == Init /\ [][Next]_vars

\* Every operation that writes the events row of a general-admission event.
NextCapacity ==
    \/ \E p \in Procs : CreateCall(p, GeneralRequests)
    \/ \E p \in Procs : CreateRead(p)
    \/ \E p \in Procs : CreateWrite(p)
    \/ \E p \in Procs : CancelRead(p)
    \/ \E p \in Procs : CancelWrite(p)
    \/ \E p \in Procs : ExpireRead(p)
    \/ \E p \in Procs : ExpireWrite(p)
    \/ \E p \in Procs : BulkRead(p, {{}})
    \/ \E p \in Procs : BulkSelect(p)
    \/ \E p \in Procs : BulkWrite(p)
    \/ \E p \in Procs : UpdateRead(p)
    \/ \E p \in Procs : UpdateWrite(p)

SpecCapacity == Init /\ [][NextCapacity]_vars

\* Every operation that writes seats or seat_bookings rows, on an event with
\* seat selection and NumSeats seats, one request at a time.
SeatProcs == {1}

InitSeats ==
    /\ InitRows(TRUE, {NumSeats})
    /\ calls = [p \in SeatProcs |-> Idle]
    /\ returned = NoReturn
    /\ mark = NoMark
    /\ NoBroker
    /\ NoPricing

NextSeats ==
    \/ \E p \in SeatProcs : CreateCall(p, SeatRequests)
    \/ \E p \in SeatProcs : CreateRead(p)
    \/ \E p \in SeatProcs : CreateWrite(p)
    \/ \E p \in SeatProcs : ConfirmRead(p)
    \/ \E p \in SeatProcs : ConfirmWrite(p)
    \/ \E p \in SeatProcs : CancelRead(p)
    \/ \E p \in SeatProcs : CancelWrite(p)
    \/ \E p \in SeatProcs : ExpireRead(p)
    \/ \E p \in SeatProcs : ExpireWrite(p)
    \/ \E p \in SeatProcs : BulkRead(p, SUBSET SeatIds)
    \/ \E p \in SeatProcs : BulkSelect(p)
    \/ \E p \in SeatProcs : BulkWrite(p)
    \/ \E p \in SeatProcs : HoldRead(p)
    \/ \E p \in SeatProcs : HoldWrite(p)
    \/ \E p \in SeatProcs : ReleaseHeld(p)
    \/ \E p \in SeatProcs : CleanupRead(p)
    \/ \E p \in SeatProcs : CleanupWrite(p)
    \/ Tick

SpecSeats == InitSeats /\ [][NextSeats]_vars

\* Concurrent hold_seats calls, and concurrent calls of create_booking's body
\* with seat_ids, on the seats of one event.
InitHoldRace ==
    /\ InitRows(TRUE, {NumSeats})
    /\ calls = [p \in Procs |-> Idle]
    /\ returned = NoReturn
    /\ mark = NoMark
    /\ NoBroker
    /\ NoPricing

NextHoldRace ==
    \/ \E p \in Procs : HoldRead(p)
    \/ \E p \in Procs : HoldWrite(p)
    \/ \E p \in Procs : CreateCall(p, SeatRequests)
    \/ \E p \in Procs : CreateRead(p)
    \/ \E p \in Procs : CreateWrite(p)

SpecHoldRace == InitHoldRace /\ [][NextHoldRace]_vars

\* A seat-selection event whose database also holds a seat of another event:
\* the last seat row belongs to E2.
InitForeignSeat ==
    /\ now = 0
    /\ event = [total_capacity |-> NumSeats, available_capacity |-> NumSeats,
                version |-> 1, has_seat_selection |-> TRUE]
    /\ seats = [s \in SeatIds |->
          [event_id |-> IF s = NumSeats THEN "E2" ELSE BookedEvent,
           status |-> "AVAILABLE", updated_at |-> 0]]
    /\ bookings = [b \in BookingIds |-> NoBooking]
    /\ seat_bookings = {}
    /\ history = [b \in BookingIds |-> <<>>]
    /\ released = [b \in BookingIds |-> 0]
    /\ NoLocks
    /\ NoWaitlist
    /\ calls = [p \in SeatProcs |-> Idle]
    /\ returned = NoReturn
    /\ mark = NoMark
    /\ NoBroker
    /\ NoPricing

NextForeignSeat ==
    \/ \E p \in SeatProcs : CreateCall(p, SeatRequests)
    \/ \E p \in SeatProcs : CreateRead(p)
    \/ \E p \in SeatProcs : CreateWrite(p)
    \/ \E p \in SeatProcs : ConfirmRead(p)
    \/ \E p \in SeatProcs : ConfirmWrite(p)
    \/ \E p \in SeatProcs : CancelRead(p)
    \/ \E p \in SeatProcs : CancelWrite(p)
    \/ \E p \in SeatProcs : ExpireRead(p)
    \/ \E p \in SeatProcs : ExpireWrite(p)
    \/ Tick

SpecForeignSeat == InitForeignSeat /\ [][NextForeignSeat]_vars

\* NumHolders lock objects on one key, used by concurrent tasks.
InitLock ==
    /\ InitTables(FALSE, {MaxCapacity})
    /\ lock_key = NULL
    /\ locks = [p \in LockProcs |-> NewLock(p)]
    /\ calls = [p \in LockProcs |-> Idle]
    /\ returned = NoReturn
    /\ mark = NoMark
    /\ NoBroker
    /\ NoPricing

NextLock ==
    \/ \E p \in LockProcs : AcquireCall(p)
    \/ \E p \in LockProcs : AcquireRetry(p)
    \/ \E p \in LockProcs : Release(p)
    \/ KeyExpires

SpecLock == InitLock /\ [][NextLock]_vars

\* create_booking alone, through its decorator and as the function the
\* decorator wraps.
NextRetry ==
    \/ \E p \in Procs : DecoratedCreateCall(p, GeneralRequests)
    \/ \E p \in Procs : CreateCall(p, GeneralRequests)
    \/ \E p \in Procs : CreateRead(p)
    \/ \E p \in Procs : CreateWrite(p)

SpecRetry == Init /\ [][NextRetry]_vars

\* A seat-selection event with its users (create_booking's body with seats,
\* hold_seats, and the cleanup-expired-holds request of the API) and the
\* celery worker that runs the tasks of beat_schedule.  Beat keeps sending
\* every task of the schedule, so the worker, idle again and again, starts
\* each of them again and again (SF) and carries a started task on (WF); the
\* clock keeps running; no request of a user is bound to come.
Workers == Procs \ SeatProcs

InitScheduler ==
    /\ InitRows(TRUE, {NumSeats})
    /\ calls = [p \in Procs |-> Idle]
    /\ returned = NoReturn
    /\ mark = NoMark
    /\ NoBroker
    /\ NoPricing

NextScheduler ==
    \/ \E p \in SeatProcs : CreateCall(p, SeatRequests)
    \/ \E p \in SeatProcs : CreateRead(p)
    \/ \E p \in SeatProcs : CreateWrite(p)
    \/ \E p \in SeatProcs : HoldRead(p)
    \/ \E p \in SeatProcs : HoldWrite(p)
    \/ \E p \in SeatProcs : CleanupRead(p)
    \/ \E p \in SeatProcs : CleanupWrite(p)
    \/ \E p \in Workers : ExpireBookingsSelect(p)
    \/ \E p \in Workers : ExpireBookingsLoop(p)
    \/ \E p \in Workers : CleanupExpiredBookings(p)
    \/ \E p \in Workers : ExpireWaitlistNotificationsTask(p)
    \/ \E p \in Workers : ExpireNotificationsWrite(p)
    \/ Tick

FairScheduler ==
    /\ WF_vars(Tick)
    /\ \A p \in Workers :
          /\ SF_vars(ExpireBookingsSelect(p))
          /\ WF_vars(ExpireBookingsLoop(p))
          /\ SF_vars(CleanupExpiredBookings(p))
          /\ SF_vars(ExpireWaitlistNotificationsTask(p))
          /\ WF_vars(ExpireNotificationsWrite(p))

SpecScheduler == InitScheduler /\ [][NextScheduler]_vars /\ FairScheduler

\* Concurrent calls of create_booking's body by one user for the event, each
\* under the lock:booking:{event_id}:{user_id} lock.
InitLockedCreate ==
    /\ InitTables(FALSE, 1..MaxCapacity)
    /\ lock_key = NULL
    /\ locks = [p \in Procs |-> NewLock(0)]
    /\ calls = [p \in Procs |-> Idle]
    /\ returned = NoReturn
    /\ mark = NoMark
    /\ NoBroker
    /\ NoPricing

NextLockedCreate ==
    \/ \E p \in Procs : LockedCreateCall(p, GeneralRequests)
    \/ \E p \in Procs : LockedCreateWait(p)
    \/ \E p \in Procs : CreateRead(p)
    \/ \E p \in Procs : CreateWrite(p)
    \/ \E p \in Procs : LockedCreateExit(p)
    \/ KeyExpires

SpecLockedCreate == InitLockedCreate /\ [][NextLockedCreate]_vars

\* The seat endpoints on their own, one request at a time: hold_seats,
\* release_held_seats and cleanup_expired_holds, with bulk bookings that
\* leave seats BOOKED.
InitSeatService == InitSeats

NextSeatService ==
    \/ \E p \in SeatProcs : HoldRead(p)
    \/ \E p \in SeatProcs : HoldWrite(p)
    \/ \E p \in SeatProcs : ReleaseHeld(p)
    \/ \E p \in SeatProcs : CleanupRead(p)
    \/ \E p \in SeatProcs : CleanupWrite(p)
    \/ \E p \in SeatProcs : BulkRead(p, SUBSET SeatIds)
    \/ \E p \in SeatProcs : BulkSelect(p)
    \/ \E p \in SeatProcs : BulkWrite(p)
    \/ Tick

SpecSeatService == InitSeatService /\ [][NextSeatService]_vars

\* The waitlist of a sold-out (or nearly sold-out) event: one caller at a
\* time runs join_waitlist, leave_waitlist, notify_waitlist,
\* convert_waitlist_to_booking and expire_waitlist_notifications.
WaitlistProcs == {1}

InitSoldOut(P) ==
    /\ now = 0
    /\ \E k \in {MaxCapacity - 1, MaxCapacity} :
          /\ event = [total_capacity |-> MaxCapacity,
                      available_capacity |-> MaxCapacity - k,
                      version |-> 2, has_seat_selection |-> FALSE]
          /\ bookings = [b \in BookingIds |->
                IF b = 1
                THEN [status |-> "CONFIRMED", quantity |-> k, expires_at |-> NULL]
                ELSE NoBooking]
    /\ history = [b \in BookingIds |->
          IF b = 1 THEN <<"CREATED", "CONFIRMED">> ELSE <<>>]
    /\ seats = [s \in SeatIds |-> [event_id |-> BookedEvent, status |-> "AVAILABLE", updated_at |-> 0]]
    /\ seat_bookings = {}
    /\ released = [b \in BookingIds |-> 0]
    /\ NoLocks
    /\ NoWaitlist
    /\ calls = [p \in P |-> Idle]
    /\ returned = NoReturn
    /\ mark = NoMark
    /\ NoBroker
    /\ NoPricing

InitWaitlist == InitSoldOut(WaitlistProcs)

NextWaitlist ==
    \/ \E p \in WaitlistProcs : JoinRead(p)
    \/ \E p \in WaitlistProcs : JoinWrite(p)
    \/ \E p \in WaitlistProcs : LeaveRead(p)
    \/ \E p \in WaitlistProcs : LeaveWrite(p)
    \/ \E p \in WaitlistProcs : NotifyRead(p)
    \/ \E p \in WaitlistProcs : NotifyWrite(p)
    \/ \E p \in WaitlistProcs : ConvertRead(p)
    \/ \E p \in WaitlistProcs : ConvertWrite(p)
    \/ \E p \in WaitlistProcs : ExpireNotificationsRead(p)
    \/ \E p \in WaitlistProcs : ExpireNotificationsWrite(p)
    \/ TickDay

SpecWaitlist == InitWaitlist /\ [][NextWaitlist]_vars

\* Concurrent join_waitlist, leave_waitlist and notify_waitlist calls.
InitWaitlistRace == InitSoldOut(Procs)

NextWaitlistRace ==
    \/ \E p \in Procs : JoinRead(p)
    \/ \E p \in Procs : JoinWrite(p)
    \/ \E p \in Procs : LeaveRead(p)
    \/ \E p \in Procs : LeaveWrite(p)
    \/ \E p \in Procs : NotifyRead(p)
    \/ \E p \in Procs : NotifyWrite(p)

SpecWaitlistRace == InitWaitlistRace /\ [][NextWaitlistRace]_vars

\* Two entries wait on a sold-out event (two join_waitlist calls have
\* committed); notify_waitlist, convert_waitlist_to_booking and
\* expire_waitlist_notifications calls then run concurrently.
InitWaitlistExpiry ==
    /\ now = 0
    /\ event = [total_capacity |-> MaxCapacity, available_capacity |-> 0,
                version |-> 2, has_seat_selection |-> FALSE]
    /\ bookings = [b \in BookingIds |->
          IF b = 1
          THEN [status |-> "CONFIRMED", quantity |-> MaxCapacity, expires_at |-> NULL]
          ELSE NoBooking]
    /\ history = [b \in BookingIds |->
          IF b = 1 THEN <<"CREATED", "CONFIRMED">> ELSE <<>>]
    /\ seats = [s \in SeatIds |-> [event_id |-> BookedEvent, status |-> "AVAILABLE", updated_at |-> 0]]
    /\ seat_bookings = {}
    /\ released = [b \in BookingIds |-> 0]
    /\ NoLocks
    /\ \E q1, q2 \in Quantities :
          waitlist = [w \in WaitlistIds |->
             IF w = 1 THEN [user_id |-> 1, requested_quantity |-> q1, position |-> 1,
                            status |-> "ACTIVE", updated_at |-> 0]
             ELSE IF w = 2 THEN [user_id |-> 2, requested_quantity |-> q2, position |-> 2,
                                 status |-> "ACTIVE", updated_at |-> 0]
             ELSE NoEntry]
    /\ joined = NoJoin
    /\ calls = [p \in Procs |-> Idle]
    /\ returned = NoReturn
    /\ mark = NoMark
    /\ NoBroker
    /\ NoPricing

NextWaitlistExpiry ==
    \/ \E p \in Procs : NotifyRead(p)
    \/ \E p \in Procs : NotifyWrite(p)
    \/ \E p \in Procs : ConvertRead(p)
    \/ \E p \in Procs : ConvertWrite(p)
    \/ \E p \in Procs : ExpireNotificationsRead(p)
    \/ \E p \in Procs : ExpireNotificationsWrite(p)
    \/ TickDay

SpecWaitlistExpiry == InitWaitlistExpiry /\ [][NextWaitlistExpiry]_vars

\* A sold-out general-admission event with a pending booking, people on its
\* waitlist, the broker up, and the celery worker that takes the notification
\* messages: confirm_booking, cancel_booking and expire_booking calls.  The
\* worker takes every message in the end and a handler that has started its
\* writes finishes them (WF); no request is bound to come.
BrokerWorker == NumProcs + 1

InitRelease ==
    /\ now = 0
    /\ event = [total_capacity |-> MaxCapacity, available_capacity |-> 0,
                version |-> 2, has_seat_selection |-> FALSE]
    /\ \E k \in Quantities :
          /\ bookings = [b \in BookingIds |->
                IF b = 1
                THEN [status |-> "PENDING", quantity |-> k,
                      expires_at |-> booking_hold_timeout_minutes]
                ELSE IF b = 2 /\ k < MaxCapacity
                THEN [status |-> "CONFIRMED", quantity |-> MaxCapacity - k, expires_at |-> NULL]
                ELSE NoBooking]
          /\ history = [b \in BookingIds |->
                IF b = 1 THEN <<"CREATED">>
                ELSE IF b = 2 /\ k < MaxCapacity THEN <<"CREATED", "CONFIRMED">>
                ELSE <<>>]
    /\ seats = [s \in SeatIds |-> [event_id |-> BookedEvent, status |-> "AVAILABLE", updated_at |-> 0]]
    /\ seat_bookings = {}
    /\ released = [b \in BookingIds |-> 0]
    /\ NoLocks
    /\ \E q1, q2 \in Quantities :
          waitlist = [w \in WaitlistIds |->
             IF w = 1 THEN [user_id |-> 1, requested_quantity |-> q1, position |-> 1,
                            status |-> "ACTIVE", updated_at |-> 0]
             ELSE IF w = 2 THEN [user_id |-> 2, requested_quantity |-> q2, position |-> 2,
                                 status |-> "ACTIVE", updated_at |-> 0]
             ELSE NoEntry]
    /\ joined = NoJoin
    /\ calls = [p \in Procs \cup {BrokerWorker} |-> Idle]
    /\ returned = NoReturn
    /\ mark = NoMark
    /\ broker = [up |-> TRUE, queue |-> {}]
    /\ NoPricing

NextRelease ==
    \/ \E p \in Procs : ConfirmRead(p)
    \/ \E p \in Procs : ConfirmWrite(p)
    \/ \E p \in Procs : CancelRead(p)
    \/ \E p \in Procs : CancelWrite(p)
    \/ \E p \in Procs : CancelCommit(p)
    \/ \E p \in Procs : ExpireRead(p)
    \/ \E p \in Procs : ExpireWrite(p)
    \/ \E p \in Procs : ExpireCommit(p)
    \/ NotifyWaitlistAvailabilityTask(BrokerWorker)
    \/ SendBookingNotificationTask(BrokerWorker)
    \/ Tick

FairRelease ==
    /\ WF_vars(NotifyWaitlistAvailabilityTask(BrokerWorker))
    /\ WF_vars(SendBookingNotificationTask(BrokerWorker))
    /\ \A p \in Procs :
          /\ WF_vars(ConfirmWrite(p))
          /\ WF_vars(CancelWrite(p))
          /\ WF_vars(CancelCommit(p))
          /\ WF_vars(ExpireWrite(p))
          /\ WF_vars(ExpireCommit(p))

SpecRelease == InitRelease /\ [][NextRelease]_vars /\ FairRelease

\* _calculate_waitlist_multiplier called for an event with any count of
\* waitlist rows up to MaxWaitlistSize and any available_capacity up to
\* MaxAvailable.
InitPricing ==
    /\ InitRows(FALSE, {MaxCapacity})
    /\ calls = [p \in Procs |-> Idle]
    /\ returned = NoReturn
    /\ mark = NoMark
    /\ NoBroker
    /\ \E n \in 0..MaxWaitlistSize, a \in 0..MaxAvailable :
          pricing = [waitlist_size |-> n, available_capacity |-> a, multiplier |-> NULL]

NextPricing == CalculateWaitlistMultiplier

SpecPricing == InitPricing /\ [][NextPricing]_vars

\* NumRacers callers invoke create_booking(quantity = 1) at the same moment on
\* an event with fewer places than callers; nothing else runs.
RaceProcs == 1..NumRacers

InitRace ==
    /\ InitRows(FALSE, 1..MaxCapacity)
    /\ calls = [p \in RaceProcs |-> [Idle EXCEPT !.op = "create", !.pc = "start",
                                                 !.quantity = 1]]
    /\ returned = NoReturn
    /\ mark = event
    /\ NoBroker
    /\ NoPricing

NextRace ==
    \/ \E p \in RaceProcs : CreateRead(p)
    \/ \E p \in RaceProcs : CreateWrite(p)

SpecRace == InitRace /\ [][NextRace]_vars

\* One caller on its own: create_booking(quantity = q) on a general-admission
\* event that may already hold one CONFIRMED booking of k tickets (created and
\* confirmed before), then cancel_booking and expire_booking calls.
LawProcs == {1}

InitLaw ==
    /\ now = 0
    /\ \E total \in 1..MaxCapacity, k \in 0..MaxCapacity :
          /\ k <= total
          /\ event = [total_capacity |-> total, available_capacity |-> total - k,
                      version |-> IF k = 0 THEN 1 ELSE 2, has_seat_selection |-> FALSE]
          /\ bookings = [b \in BookingIds |->
                IF b = 1 /\ k > 0
                THEN [status |-> "CONFIRMED", quantity |-> k, expires_at |-> NULL]
                ELSE NoBooking]
          /\ history = [b \in BookingIds |->
                IF b = 1 /\ k > 0 THEN <<"CREATED", "CONFIRMED">> ELSE <<>>]
    /\ seats = [s \in SeatIds |-> [event_id |-> BookedEvent, status |-> "AVAILABLE", updated_at |-> 0]]
    /\ seat_bookings = {}
    /\ released = [b \in BookingIds |-> 0]
    /\ NoLocks
    /\ NoWaitlist
    /\ \E q \in Quantities :
          calls = [p \in LawProcs |-> [Idle EXCEPT !.op = "create", !.pc = "start",
                                                  !.quantity = q]]
    /\ returned = NoReturn
    /\ mark = event
    /\ NoBroker
    /\ NoPricing

NextLaw ==
    \/ \E p \in LawProcs : CreateRead(p)
    \/ \E p \in LawProcs : CreateWrite(p)
    \/ \E p \in LawProcs : CancelRead(p)
    \/ \E p \in LawProcs : CancelWrite(p)
    \/ \E p \in LawProcs : ExpireRead(p)
    \/ \E p \in LawProcs : ExpireWrite(p)
    \/ Tick

SpecLaw == InitLaw /\ [][NextLaw]_vars

\* One caller on an event with or without seat selection:
\* create_bulk_booking, then cancel_booking and expire_booking calls.
InitBulkLaw ==
    /\ \E hs \in BOOLEAN : InitRows(hs, {NumSeats})
    /\ calls = [p \in LawProcs |-> Idle]
    /\ returned = NoReturn
    /\ mark = event
    /\ NoBroker
    /\ NoPricing

NextBulkLaw ==
    \/ \E p \in LawProcs : BulkRead(p, SUBSET SeatIds)
    \/ \E p \in LawProcs : BulkSelect(p)
    \/ \E p \in LawProcs : BulkWrite(p)
    \/ \E p \in LawProcs : CancelRead(p)
    \/ \E p \in LawProcs : CancelWrite(p)
    \/ \E p \in LawProcs : ExpireRead(p)
    \/ \E p \in LawProcs : ExpireWrite(p)
    \/ Tick

SpecBulkLaw == InitBulkLaw /\ [][NextBulkLaw]_vars

\* -------------------------------------------------------------- properties
RECURSIVE SumQuantity(_, _)
SumQuantity(bk, B) ==
    IF B = {} THEN 0
    ELSE LET b == CHOOSE x \in B : TRUE
         IN bk[b].quantity + SumQuantity(bk, B \ {b})

\* The tickets of the bookings that are pending or confirmed.
ActiveQuantity == SumQuantity(bookings, {b \in BookingIds : is_active(bookings[b])})

\* C1: on a general-admission event the quantities of the PENDING and
\* CONFIRMED bookings never add up to more than total_capacity, whatever the
\* interleaving of create, confirm, cancel and expire.
NoOversell == ActiveQuantity <= event.total_capacity

\* C4: total_capacity - available_capacity is at least the quantities of the
\* PENDING and CONFIRMED bookings, seat bookings included, and equal to them
\* while no booking of the event names seats.
CapacityCoversActive ==
    /\ event.total_capacity - event.available_capacity >= ActiveQuantity
    /\ seat_bookings = {}
           => event.total_capacity - event.available_capacity = ActiveQuantity

\* C5: no seat is named by seat_bookings rows of two different bookings that
\* are PENDING or CONFIRMED, whatever create_booking with seat_ids, bulk
\* booking, hold_seats, release_held_seats, cleanup_expired_holds, confirm,
\* cancel and expire do.
NoSeatDoubleBooked ==
    \A s \in SeatIds :
        Cardinality({b \in BookingIds :
                        is_active(bookings[b]) /\ <<b, s>> \in seat_bookings}) <= 1

\* C6: a booking's status changes only PENDING -> CONFIRMED, PENDING ->
\* CANCELLED, PENDING -> EXPIRED or CONFIRMED -> CANCELLED; CANCELLED and
\* EXPIRED never change, CONFIRMED never becomes EXPIRED or PENDING.
AllowedTransitions ==
    {<<"NONE", "PENDING">>, <<"PENDING", "CONFIRMED">>, <<"PENDING", "CANCELLED">>,
     <<"PENDING", "EXPIRED">>, <<"CONFIRMED", "CANCELLED">>}

StatusTransitions ==
    [][\A b \in BookingIds :
          bookings'[b].status # bookings[b].status
              => <<bookings[b].status, bookings'[b].status>> \in AllowedTransitions]_vars

\* C7: the inventory of a booking is released at most once, also when cancel
\* and expire race on it, and never for a booking that ends CONFIRMED.
ReleasedOnce ==
    \A b \in BookingIds :
        /\ released[b] <= 1
        /\ bookings[b].status = "CONFIRMED" => released[b] = 0

\* C8: a PENDING booking has an expires_at; a CONFIRMED, CANCELLED or EXPIRED
\* booking has expires_at null.
ExpiresAtMatchesStatus ==
    \A b \in Existing :
        /\ bookings[b].status = "PENDING" => bookings[b].expires_at # NULL
        /\ bookings[b].status \in {"CONFIRMED", "CANCELLED", "EXPIRED"}
               => bookings[b].expires_at = NULL

\* C9: on a general-admission event, create_booking(q) followed by
\* cancel_booking of that booking, or followed by expire_booking of it, leaves
\* available_capacity at the value it had before the create; so both
\* sequences end with the same available_capacity.
CreateThenReleaseRestores ==
    \A b \in Existing :
        /\ \/ history[b] = <<"CREATED", "CANCELLED">>
           \/ history[b] = <<"CREATED", "EXPIRED">>
        /\ \A o \in BookingIds \ {b} : released[o] = 0
        => event.available_capacity = mark.available_capacity

\* A booking created on an event that already had tickets sold has been
\* expired.
CreatedThenExpired ==
    \E b \in Existing :
        /\ bookings[b].status = "EXPIRED"
        /\ history[b] = <<"CREATED", "EXPIRED">>
        /\ mark.available_capacity < mark.total_capacity

\* C10: a create_booking attempt that fails, at validation or at the capacity
\* UPDATE, whether it is retried or its exception reaches the caller, leaves
\* every row as it was: no booking, seat_bookings or history row, no seat
\* status change, no capacity or version change.
FailedCreate(p) ==
    /\ calls[p].op = "create"
    /\ calls[p].pc \in {"start", "write"}
    /\ \/ calls'[p].pc = "start" /\ calls'[p].attempt = calls[p].attempt + 1
       \/ calls'[p].pc = "idle" /\ returned'.op = "create" /\ returned'.result # "ok"

FailedCreateWritesNothing ==
    [][(\E p \in Procs : FailedCreate(p)) => store' = store]_vars

\* A create_booking call has failed at its capacity UPDATE: the event has all
\* MaxCapacity places free, so the validation of the attempt had passed.
FailedCreateAtUpdate ==
    /\ returned = [op |-> "create", result |-> "NameError"]
    /\ event.available_capacity = MaxCapacity

\* C2: when more callers than there are places call create_booking(quantity
\* = 1) at once, every call that fails gives its caller
\* InsufficientCapacityError, and once all have returned there are exactly as
\* many PENDING bookings as there were places and available_capacity is 0.
RaceFillsEvent ==
    [][/\ returned'.op = "create" /\ returned'.result # "ok"
           => returned'.result = "InsufficientCapacityError"
       /\ (\A p \in RaceProcs : calls'[p].pc = "idle")
           => /\ Cardinality({b \in BookingIds : bookings'[b].status = "PENDING"})
                    = mark.available_capacity
              /\ event'.available_capacity = 0]_vars

\* C3: in every committed state 0 <= available_capacity <= total_capacity,
\* whatever create_booking, cancel_booking, expire_booking, create_bulk_booking
\* and update_event commit.
CapacityInRange ==
    /\ 0 <= event.available_capacity
    /\ event.available_capacity <= event.total_capacity

\* A release that would have taken available_capacity above total_capacity
\* was rejected: the call ended in IntegrityError with the event full.
ReleaseRejectedAtTotal ==
    /\ returned.op \in {"cancel", "expire"}
    /\ returned.result = "IntegrityError"
    /\ event.available_capacity = event.total_capacity
    /\ \E b \in BookingIds : released[b] = 1

\* C11: confirm_booking on a PENDING booking at or after its expires_at, the
\* instant now = expires_at included, is rejected with BookingExpiredError;
\* the booking stays PENDING and no history row is added.
ConfirmRejectsExpired ==
    [][\A p \in Procs, b \in Existing :
          /\ ConfirmReadOf(p, b)
          /\ bookings[b].status = "PENDING"
          /\ bookings[b].expires_at # NULL
          /\ now >= bookings[b].expires_at
          => /\ returned' = [op |-> "confirm", result |-> "BookingExpiredError"]
             /\ calls'[p] = Idle
             /\ bookings'[b].status = "PENDING"
             /\ history' = history]_vars

\* C12: cancel_booking on a CANCELLED or EXPIRED booking fails with
\* InvalidBookingStateError and changes nothing: capacity, version, seats,
\* bookings and history stay as they were.
CancelRejectsSettled ==
    [][\A p \in Procs, b \in Existing :
          /\ CancelReadOf(p, b)
          /\ bookings[b].status \in {"CANCELLED", "EXPIRED"}
          => /\ returned' = [op |-> "cancel", result |-> "InvalidBookingStateError"]
             /\ calls'[p] = Idle
             /\ store' = store
             /\ released' = released]_vars

\* C13: expire_booking on a CONFIRMED, CANCELLED or EXPIRED booking returns
\* without error and without running any write: status, capacity, seats and
\* history stay as they were, so a second expire_booking changes nothing.
ExpireSkipsSettled ==
    [][\A p \in LawProcs, b \in Existing :
          /\ ExpireReadOf(p, b)
          /\ bookings[b].status # "PENDING"
          => /\ returned' = [op |-> "expire", result |-> "ok"]
             /\ calls'[p] = Idle
             /\ store' = store
             /\ released' = released]_vars

\* expire_booking has returned from a call on a booking that was not
\* PENDING: no booking is PENDING or EXPIRED, so the call expired nothing.
ExpiredNothing ==
    /\ returned = [op |-> "expire", result |-> "ok"]
    /\ Existing # {}
    /\ \A b \in Existing : bookings[b].status \in {"CONFIRMED", "CANCELLED"}

\* C14: hold_seats(S), and create_booking with seat_ids S, with a seat of S
\* that is not AVAILABLE fails with SeatNotAvailableError and leaves every
\* seat as it was; no booking or seat_bookings row is created.
SeatReservationAllOrNothing ==
    [][/\ \A p \in SeatProcs, S \in (SUBSET SeatIds) \ {{}} :
             HoldReadOf(p, S) /\ ~all_available(Store, S)
             => /\ returned' = [op |-> "hold", result |-> "SeatNotAvailableError"]
                /\ store' = store
       /\ \A p \in SeatProcs :
             /\ CreateRead(p)
             /\ calls[p].seat_ids # {}
             /\ ~all_available(Store, calls[p].seat_ids)
             => /\ returned' = [op |-> "create", result |-> "SeatNotAvailableError"]
                /\ store' = store]_vars

\* C15: release_held_seats(S) sets AVAILABLE exactly the seats of S that are
\* HELD; every other seat keeps its status, and no other row changes.  So
\* after hold_seats(S), release_held_seats(S) leaves all of S AVAILABLE.
ReleaseHeldFrame ==
    [][\A p \in SeatProcs, S \in (SUBSET SeatIds) \ {{}} :
          ReleaseHeldOf(p, S)
          => /\ \A s \in SeatIds :
                   seats'[s].status = IF s \in S /\ seats[s].status = "HELD"
                                      THEN "AVAILABLE" ELSE seats[s].status
             /\ UNCHANGED <<event, bookings, seat_bookings, history>>]_vars

\* release_held_seats has just freed a held seat while another seat is
\* BOOKED and stays so.
ReleasedBesideBooked ==
    /\ returned = [op |-> "release", result |-> "ok"]
    /\ now > 0
    /\ \E s1, s2 \in SeatIds :
          /\ seats[s1].status = "BOOKED"
          /\ seats[s2].status = "AVAILABLE"
          /\ seats[s2].updated_at = now

\* The ACTIVE and NOTIFIED entries of the waitlist.
Waiting(wl) == {w \in WaitlistIds : wl[w].status \in {"ACTIVE", "NOTIFIED"}}

\* C16: in every state reached by join_waitlist, leave_waitlist,
\* notify_waitlist, expire_waitlist_notifications and
\* convert_waitlist_to_booking calls, the positions of the ACTIVE and
\* NOTIFIED entries are exactly 1..k, k being the number of such entries.
PositionsContiguous ==
    {waitlist[w].position : w \in Waiting(waitlist)} = 1..Cardinality(Waiting(waitlist))

\* C17: leave_waitlist decrements by one the position of exactly the ACTIVE
\* and NOTIFIED entries behind the removed one and changes no status; and
\* when the user who leaves is the one whose join_waitlist committed last,
\* every other entry has the position and status it had before that join.
LeaveRestoresPositions ==
    [][\A p \in WaitlistProcs :
          LeaveWrite(p)
          => LET w == calls[p].waitlist_ids[1]
                 others == WaitlistIds \ {w}
             IN /\ waitlist'[w].status = "DELETED"
                /\ \A v \in others :
                      /\ waitlist'[v].status = waitlist[v].status
                      /\ waitlist'[v].position =
                            IF /\ v \in Waiting(waitlist)
                               /\ waitlist[v].position > waitlist[w].position
                            THEN waitlist[v].position - 1
                            ELSE waitlist[v].position
                /\ joined.user_id = calls[p].user_id
                   => \A v \in others :
                         /\ waitlist'[v].status = joined.rows[v].status
                         /\ waitlist'[v].position = joined.rows[v].position]_vars

\* The user who joined last has left again; an entry still waits and a
\* CONVERTED row is in the table.
JoinedThenLeft ==
    /\ returned = [op |-> "leave", result |-> "True"]
    /\ waitlist[MaxEntries].status = "DELETED"
    /\ Waiting(waitlist) # {}
    /\ \E v \in WaitlistIds : waitlist[v].status = "CONVERTED"

\* C18: notify_waitlist serves the head of the line first: an entry is set
\* to NOTIFIED only if every ACTIVE entry ahead of it is set to NOTIFIED by
\* the same call.
NotifyHeadOfLine ==
    [][\A p \in WaitlistProcs :
          NotifyWrite(p)
          => \A w, v \in WaitlistIds :
                /\ waitlist[w].status = "ACTIVE" /\ waitlist'[w].status = "NOTIFIED"
                /\ waitlist[v].status = "ACTIVE"
                /\ waitlist[v].position < waitlist[w].position
                => waitlist'[v].status = "NOTIFIED"]_vars

\* C19: expire_waitlist_notifications puts every timed-out NOTIFIED entry
\* back to ACTIVE behind every entry it did not re-queue, and the entries it
\* re-queues keep their relative order.
ExpireRequeuesInOrder ==
    [][\A p \in WaitlistProcs :
          ExpireNotificationsWrite(p)
          => LET sq == calls[p].waitlist_ids
                 run == {sq[i] : i \in 1..Len(sq)}
             IN /\ \A x \in run : waitlist'[x].status = "ACTIVE"
                /\ \A x \in run, v \in Waiting(waitlist) \ run :
                      waitlist'[v].position < waitlist'[x].position
                /\ \A x, y \in run :
                      waitlist[x].position < waitlist[y].position
                      => waitlist'[x].position < waitlist'[y].position]_vars

\* No user has two ACTIVE or NOTIFIED entries for the event.
OneEntryPerUser ==
    \A w, v \in Waiting(waitlist) : waitlist[w].user_id = waitlist[v].user_id => w = v

\* C20 as stated: at most one ACTIVE or NOTIFIED entry per user, and a
\* join_waitlist by a user who has one fails with AlreadyOnWaitlistError and
\* adds nothing, concurrent calls included.
JoinTwiceAlreadyOnWaitlist ==
    [][/\ OneEntryPerUser'
       /\ \A p \in Procs, u \in UserIds, q \in Quantities :
             JoinReadOf(p, u, q) /\ get_user_waitlist_entry(waitlist, u) # 0
             => /\ returned' = [op |-> "join", result |-> "AlreadyOnWaitlistError"]
                /\ waitlist' = waitlist
       /\ \A p \in Procs :
             JoinWrite(p) /\ get_user_waitlist_entry(waitlist, calls[p].user_id) # 0
             => /\ returned' = [op |-> "join", result |-> "AlreadyOnWaitlistError"]
                /\ waitlist' = waitlist]_vars

\* C20: at most one ACTIVE or NOTIFIED entry per user; a join_waitlist by a
\* user who has one adds nothing and fails: with EventNotSoldOutError when
\* available_capacity >= requested_quantity, which is checked first, and with
\* AlreadyOnWaitlistError otherwise, concurrent calls included.
JoinTwiceRejected ==
    [][/\ OneEntryPerUser'
       /\ \A p \in Procs, u \in UserIds, q \in Quantities :
             JoinReadOf(p, u, q) /\ get_user_waitlist_entry(waitlist, u) # 0
             => /\ returned' = [op |-> "join",
                                result |-> IF event.available_capacity >= q
                                           THEN "EventNotSoldOutError"
                                           ELSE "AlreadyOnWaitlistError"]
                /\ waitlist' = waitlist
       /\ \A p \in Procs :
             JoinWrite(p) /\ get_user_waitlist_entry(waitlist, calls[p].user_id) # 0
             => /\ returned' = [op |-> "join", result |-> "AlreadyOnWaitlistError"]
                /\ waitlist' = waitlist]_vars

\* A join_waitlist has just been rejected with AlreadyOnWaitlistError while
\* the only row of the table is the waiting entry of the one user who ever
\* joined.
SecondJoinRejected ==
    /\ returned = [op |-> "join", result |-> "AlreadyOnWaitlistError"]
    /\ Cardinality(Waiting(waitlist)) = 1
    /\ \A w \in WaitlistIds : waitlist[w].status \in {"ACTIVE", "NOTIFIED", "NONE"}

\* C21: a CONVERTED entry stays CONVERTED, and expire_waitlist_notifications
\* changes only entries that are NOTIFIED and timed out when it writes, also
\* when convert_waitlist_to_booking runs on the same entry at the same time.
ConvertedIsFinal ==
    [][/\ \A w \in WaitlistIds :
             waitlist[w].status = "CONVERTED" => waitlist'[w].status = "CONVERTED"
       /\ \A p \in Procs :
             ExpireNotificationsWrite(p)
             => \A w \in WaitlistIds :
                   waitlist'[w] # waitlist[w] => w \in timed_out(waitlist, now)]_vars

\* C28: after confirm_booking succeeds on a booking that reserved specific
\* seats, every seat linked to the booking is BOOKED.
ConfirmBooksSeats ==
    [][\A p \in SeatProcs :
          /\ ConfirmWrite(p)
          /\ returned' = [op |-> "confirm", result |-> "ok"]
          /\ SeatsOf(seat_bookings, calls[p].booking_id) # {}
          => \A s \in SeatsOf(seat_bookings', calls[p].booking_id) :
                seats'[s].status = "BOOKED"]_vars

SeatBookingsOfBookedEvent ==
    \A r \in seat_bookings : seats[r[2]].event_id = BookedEvent

\* C22: release deletes the key only when the key holds the releasing lock's
\* identifier; when it holds anything else, release returns False and the key
\* keeps its value.
ReleaseOnlyOwnKey ==
    [][\A p \in LockProcs :
          Release(p) =>
             /\ lock_key' # lock_key => lock_key = locks[p].identifier
             /\ lock_key # locks[p].identifier =>
                   /\ lock_key' = lock_key
                   /\ returned' = [op |-> "release", result |-> "False"]]_vars

\* C22 witness: a lock whose key ran out and was taken by another holder has
\* released: it got False and the other holder's identifier is still stored.
ReleasedAfterTakeover ==
    \E p, q \in LockProcs :
        /\ p # q
        /\ returned = [op |-> "release", result |-> "False"]
        /\ locks[p].outcome = "not_owner"
        /\ locks[q].pc = "held"
        /\ lock_key = locks[q].identifier

\* An acquire step of p, one pass of acquire's loop, seen in the state: only
\* AcquireCall and AcquireRetry change a lock object that does not hold.
AcquireStep(p) == locks[p].pc # "held" /\ locks'[p] # locks[p]

\* C23 as stated: a pass of acquire takes the lock if and only if the key is
\* unset at that moment.
AcquireIffUnset ==
    [][\A p \in LockProcs :
          AcquireStep(p) => (locks'[p].pc = "held" <=> lock_key = NULL)]_vars

\* C23: a pass of acquire takes the lock only if the key is unset at that
\* moment, and then stores its own identifier; when the key is unset and Redis
\* answers the command, the pass takes the lock.  So while a holder's key is
\* neither released nor run out, no other acquire returns True.
AcquireOnlyIfUnset ==
    [][\A p \in LockProcs :
          AcquireStep(p) =>
             /\ locks'[p].pc = "held" =>
                   /\ lock_key = NULL
                   /\ lock_key' = locks[p].identifier
                   /\ returned' = [op |-> "acquire", result |-> "True"]
             /\ (lock_key = NULL /\ locks'[p].outcome \notin {"RedisError", "no_client"})
                   => locks'[p].pc = "held"
             /\ \A q \in LockProcs \ {p} :
                   (locks[q].pc = "held" /\ lock_key = locks[q].identifier)
                      => returned' # [op |-> "acquire", result |-> "True"]]_vars

\* C23 witness: while one holder has the key, another lock's non-blocking
\* acquire has just returned False.
AcquireRefusedWhileHeld ==
    \E p, q \in LockProcs :
        /\ p # q
        /\ locks[q].pc = "held"
        /\ lock_key = locks[q].identifier
        /\ returned = [op |-> "acquire", result |-> "False"]
        /\ locks[p].outcome = "busy"

\* C24: no call of create_booking ends because its lock could not be
\* obtained.
LockFailureNeverFailsCreate ==
    returned # [op |-> "create", result |-> "RuntimeError"]

\* C25: an attempt of create_booking that meets a stale event version before
\* its third attempt is followed by another attempt; the caller gets no error
\* from it.
ConflictIsRetried ==
    [][\A p \in Procs :
          /\ CreateWrite(p)
          /\ calls[p].seat_ids = {}
          /\ update_event_capacity(Store, calls[p].ev, calls[p].quantity).exc
                = "ConcurrencyError"
          /\ calls[p].attempt < max_attempts - 1
          => /\ calls'[p].op = "create" /\ calls'[p].pc = "start"
             /\ calls'[p].attempt = calls[p].attempt + 1
             /\ returned' = NoReturn]_vars

\* C26: a PENDING booking whose expires_at has passed does not stay PENDING
\* for ever while the scheduler keeps running its tasks.
PendingEventuallyExpired ==
    \A b \in BookingIds :
        (bookings[b].status = "PENDING" /\ bookings[b].expires_at < now)
           ~> (bookings[b].status # "PENDING")

\* C27: a seat held by hold_seats, with no booking on it, whose hold is older
\* than SEAT_HOLD_DURATION does not stay HELD for ever while the scheduler
\* keeps running its tasks.
HeldEventuallyAvailable ==
    \A s \in SeatIds :
        (/\ seats[s].status = "HELD"
         /\ seats[s].updated_at < now - SEAT_HOLD_DURATION
         /\ \A b \in BookingIds : <<b, s>> \notin seat_bookings)
           ~> (seats[s].status # "HELD")

\* C38: a seat linked to a CONFIRMED booking is never AVAILABLE.
ConfirmedSeatNeverAvailable ==
    \A r \in seat_bookings :
        bookings[r[1]].status = "CONFIRMED" => seats[r[2]].status # "AVAILABLE"

\* C37: a run of expire_bookings_task goes on after a booking fails to expire:
\* it ends only when no selected booking is left behind the one at the head
\* of its loop, and it ends with its count of expired bookings.
SweepPassesEveryBooking ==
    [][\A p \in Workers :
          /\ calls[p].op = "expire_bookings_task" /\ calls[p].pc = "loop"
          /\ calls'[p].pc = "idle"
          => /\ Tail(calls[p].booking_ids) = <<>>
             /\ returned'.result \in {"expired_count 0", "expired_count 1"}]_vars

\* C34: convert_waitlist_to_booking on an entry that is not NOTIFIED (ACTIVE,
\* or CONVERTED already) changes no entry's status and no entry's position.
ConvertOnlyNotified ==
    [][\A p \in WaitlistProcs :
          /\ calls[p].op = "convert" /\ calls[p].pc = "write"
          /\ calls'[p].pc = "idle"
          /\ waitlist[calls[p].waitlist_ids[1]].status # "NOTIFIED"
          => \A w \in WaitlistIds :
                /\ waitlist'[w].status = waitlist[w].status
                /\ waitlist'[w].position = waitlist[w].position]_vars

\* C31: a notification message is on the broker only when the transaction of
\* the operation that queued it has committed: the booking a confirmation
\* message names is no longer PENDING, and the booking a cancellation or
\* waitlist-availability message comes from is CANCELLED or EXPIRED.
IntentsAfterCommit ==
    \A m \in broker.queue :
        /\ m.task = "send_booking_confirmation_task"
           => bookings[m.booking_id].status # "PENDING"
        /\ m.task \in {"send_booking_cancellation_task", "notify_waitlist_availability_task"}
           => bookings[m.booking_id].status \in {"CANCELLED", "EXPIRED"}

\* The first ACTIVE entry of the waitlist.
FirstActive(w) ==
    /\ waitlist[w].status = "ACTIVE"
    /\ \A v \in WaitlistIds :
          waitlist[v].status = "ACTIVE" => waitlist[w].position <= waitlist[v].position

\* C32: once cancel_booking or expire_booking of a booking of quantity q has
\* committed and the first ACTIVE waitlist entry asks for at most q tickets,
\* that entry becomes NOTIFIED.
ReleaseNotifiesWaitlist ==
    \A b \in BookingIds, w \in WaitlistIds :
        (/\ bookings[b].status \in {"CANCELLED", "EXPIRED"}
         /\ released[b] > 0
         /\ FirstActive(w)
         /\ waitlist[w].requested_quantity <= bookings[b].quantity)
           ~> (waitlist[w].status = "NOTIFIED")

\* C35: waitlist mutations of one event are serialized: no two entries that
\* are ACTIVE or NOTIFIED hold the same position, also when join_waitlist
\* calls of different users, or join_waitlist and leave_waitlist, run
\* concurrently.
DistinctWaitingPositions ==
    \A v, w \in WaitlistIds :
        /\ v # w
        /\ waitlist[v].status \in {"ACTIVE", "NOTIFIED"}
        /\ waitlist[w].status \in {"ACTIVE", "NOTIFIED"}
        => waitlist[v].position # waitlist[w].position

\* The history action that records the move of a booking to `status`.
ActionOf(status) == IF status = "PENDING" THEN "CREATED" ELSE status

\* C33: the history of a booking is append-only and mirrors its status: a
\* step appends at most one entry, it appends one exactly when it changes the
\* booking's status, the entry names the new status (CREATED for PENDING),
\* and a history never holds more than one CANCELLED-or-EXPIRED entry, also
\* when confirm, cancel and expire race on the booking.
HistoryMirrorsStatus ==
    [][\A b \in BookingIds :
          /\ history'[b] # history[b]
             => /\ Len(history'[b]) = Len(history[b]) + 1
                /\ SubSeq(history'[b], 1, Len(history[b])) = history[b]
                /\ history'[b][Len(history'[b])] = ActionOf(bookings'[b].status)
          /\ (history'[b] # history[b]) <=> (bookings'[b].status # bookings[b].status)
          /\ Cardinality({i \in DOMAIN history'[b] :
                             history'[b][i] \in {"CANCELLED", "EXPIRED"}}) <= 1]_vars

\* C39: a hold_seats call, or a create_booking call with seat_ids, that
\* returns success has itself moved every seat it lists from AVAILABLE to
\* HELD, so of two concurrent calls on overlapping seats at most one succeeds.
SuccessMovedEverySeat ==
    [][\A p \in Procs :
          /\ calls[p].op \in {"hold", "create"} /\ calls[p].pc = "write"
          /\ calls'[p].pc = "idle"
          /\ returned'.result = "ok"
          => \A s \in calls[p].seat_ids :
                seats[s].status = "AVAILABLE" /\ seats'[s].status = "HELD"]_vars

MultiplierFor(waitlist_size, divisor) ==
    CASE waitlist_size >= 2 * divisor -> 130
      [] waitlist_size >= divisor /\ waitlist_size < 2 * divisor -> 115
      [] 2 * waitlist_size >= divisor /\ waitlist_size < divisor -> 105
      [] OTHER -> 100

\* C36 as stated: the waitlist multiplier is the one that belongs to
\* pressure = waitlistSize / max(availableCapacity, 10).
MultiplierByMaxBaseline ==
    pricing.multiplier # NULL
    => pricing.multiplier =
          MultiplierFor(pricing.waitlist_size,
                        IF pricing.available_capacity > 10
                        THEN pricing.available_capacity ELSE 10)

\* C36: the waitlist multiplier is the one that belongs to pressure =
\* waitlistSize / availableCapacity when availableCapacity > 0, and to
\* waitlistSize / 10 when availableCapacity is 0: 1.3 from 2 on, 1.15 from 1
\* on, 1.05 from 0.5 on, 1.0 below.
MultiplierByPressure ==
    pricing.multiplier # NULL
    => pricing.multiplier =
          MultiplierFor(pricing.waitlist_size,
                        IF pricing.available_capacity > 0
                        THEN pricing.available_capacity ELSE 10)

\* A price was calculated for an event with less than ten places left and a
\* waitlist twice as long.
HighPressureBelowBaseline ==
    /\ pricing.multiplier = 130
    /\ pricing.available_capacity \in 1..9
    /\ pricing.waitlist_size = 2 * pricing.available_capacity

====
